---- MODULE Spec2Model ----
(***************************************************************************)
(* Model of bay's resolution core: the container graph                     *)
(* (bay/containers/graph.py), the profile overlay                          *)
(* (bay/containers/profile.py) and the profile stack loader                *)
(* (bay/cli/__init__.py, App.load_profiles).                               *)
(*                                                                         *)
(* Python values are tagged records [kind, n, s]; dictionaries are         *)
(* functions whose DOMAIN is the set of keys; an operation of the code is  *)
(* an operator from a graph record to a graph record whose field exc names *)
(* the exception it raised ("none" when it returned).                      *)
(***************************************************************************)
EXTENDS Integers, Sequences, FiniteSets, TLC

\* ------------------------------------------------------------ bounds
\* Longest sequence of calls made on a graph after its construction.
MaxCalls == 2

\* The polling rounds of WaitsPlugin.post_start that are followed; a loop still
\* waiting after them goes on.
MaxRounds == 2

\* ------------------------------------------------------------ python values
PyBool(b) == [kind |-> "bool", n |-> IF b THEN 1 ELSE 0, s |-> {}]
PyInt(i) == [kind |-> "int", n |-> i, s |-> {}]
PyStr(t) == [kind |-> "str", n |-> 0, s |-> {t}]
PyNone == [kind |-> "none", n |-> 0, s |-> {}]
PySet(S) == [kind |-> "set", n |-> 0, s |-> S]

\* bool(value): Python truthiness of a value.
Truthy(v) ==
    CASE v.kind = "bool" -> v.n # 0
      [] v.kind = "int" -> v.n # 0
      [] v.kind = "str" -> v.s # {""}
      [] v.kind = "set" -> v.s # {}
      [] OTHER -> FALSE

\* dict helpers: d[k] = v, d.get(k, default)
Put(d, k, v) == [x \in (DOMAIN d) \cup {k} |-> IF x = k THEN v ELSE d[x]]
Get(d, k, default) == IF k \in DOMAIN d THEN d[k] ELSE default
EmptyDict == [x \in {} |-> {}]

\* ------------------------------------------------------------ containers
\* graph.prefix, the prefix of managed images (bay.yaml, key "prefix").
Prefix == "bay"

\* The Container objects the loader can hand to the graph, by name.
Objs == {"base", "app", "web", "loop"}

\* Container.default_links: set(config_data.get("links", []))
default_links(c) ==
    CASE c = "app" -> {"base"}
      [] c = "web" -> {"app", "base"}
      [] OTHER -> {}

\* config_data.get("extra_links", [])
config_extra_links(c) ==
    CASE c = "app" -> {"web"}
      [] c = "loop" -> {"app"}
      [] OTHER -> {}

\* Container.all_links: extra_links united with default_links
all_links(c) == config_extra_links(c) \cup default_links(c)

\* Container.build_parent: the image of the Dockerfile's FROM line, split at "/".
build_parent(c) ==
    CASE c = "base" -> [prefix |-> "library", name |-> "ubuntu"]
      [] c = "app" -> [prefix |-> Prefix, name |-> "base"]
      [] c = "web" -> [prefix |-> Prefix, name |-> "app"]
      [] OTHER -> [prefix |-> Prefix, name |-> "loop"]

\* Container.build_parent_in_prefix
build_parent_in_prefix(c) == build_parent(c).prefix = Prefix

\* Container.foreground
foreground(c) == c = "web"

\* Container.ports as loaded from the container's bay.yaml
config_ports(c) == IF c = "app" THEN (80 :> 8000) ELSE EmptyDict

\* Container.environment as loaded from the container's bay.yaml
config_environment(c) == IF c = "app" THEN ("MODE" :> "prod") ELSE EmptyDict

\* Container.image_tag default
config_image_tag(c) == "local"

\* ------------------------------------------------------------ state
VARIABLES
    containers,            \* ContainerGraph.containers: the registered names
    _dependencies,         \* ContainerGraph._dependencies: depender -> set of providers
    _build_dependencies,   \* ContainerGraph._build_dependencies: depender -> provider
    _options,              \* ContainerGraph._options: container -> option -> value
    ports,                 \* Container.ports of every container object
    environment,           \* Container.environment of every container object
    image_tag,             \* Container.image_tag of every container object
    last,                  \* the last call made, its arguments and its outcome
    calls,                 \* number of calls made so far
    user_profile,          \* App.user_profile: the Profile object and its fields
    disk,                  \* the file user_profile.yaml
    instances,             \* the plugin instances created so far: the class of each
    plugins,               \* App.plugins: plugin class -> its instance
    loaded,                \* the instances whose load() has been called, in order
    hooks,                 \* App.hooks: hook type -> list of receivers
    catalog                \* App.catalog: catalog type -> ordered items

\* The user profile and its file, which the graph's operations leave alone.
store_vars == <<user_profile, disk>>

\* The graph and its containers, which dump, save and load leave alone.
graph_vars == <<containers, _dependencies, _build_dependencies, _options, ports,
                environment, image_tag>>

\* The plugins, hooks and catalog of the App.
app_vars == <<instances, plugins, loaded, hooks, catalog>>

vars == <<containers, _dependencies, _build_dependencies, _options, ports,
          environment, image_tag, last, calls, user_profile, disk, instances,
          plugins, loaded, hooks, catalog>>

\* The graph and its containers as one value; exc is the exception in flight.
Graph ==
    [containers |-> containers, deps |-> _dependencies,
     bdeps |-> _build_dependencies, opts |-> _options, ports |-> ports,
     env |-> environment, tag |-> image_tag, warned |-> {}, exc |-> "none"]

Raise(g, e) == [g EXCEPT !.exc = e]

\* ------------------------------------------------------------ graph.py
\* A mutant of set_dependencies_loop: the provider is added before it is checked.
RECURSIVE set_dependencies_loop_unchecked(_, _, _, _)
set_dependencies_loop_unchecked(g, depender, providers, i) ==
    IF i > Len(providers) THEN g
    ELSE LET provider == providers[i]
             g1 == [g EXCEPT !.deps[depender] = @ \cup {provider}]
         IN IF provider \notin g.containers \/ depender \notin g.containers
            THEN Raise(g1, "ValueError")
            ELSE set_dependencies_loop_unchecked(g1, depender, providers, i + 1)

\* ContainerGraph.set_dependencies, the loop over providers.
RECURSIVE set_dependencies_loop(_, _, _, _)
set_dependencies_loop(g, depender, providers, i) ==
    IF i > Len(providers) THEN g
    ELSE LET provider == providers[i]
         IN IF provider \notin g.containers \/ depender \notin g.containers
            THEN Raise(g, "ValueError")
            ELSE set_dependencies_loop(
                     [g EXCEPT !.deps[depender] = @ \cup {provider}],
                     depender, providers, i + 1)

\* A mutant of set_dependencies: providers are added to the previous set.
set_dependencies_merging(g, depender, providers) ==
    set_dependencies_loop(
        [g EXCEPT !.deps = Put(g.deps, depender, Get(g.deps, depender, {}))],
        depender, providers, 1)

\* ContainerGraph.set_dependencies
set_dependencies(g, depender, providers) ==
    set_dependencies_loop([g EXCEPT !.deps = Put(g.deps, depender, {})],
                          depender, providers, 1)

\* A mutant of set_option: the value is stored before the key is validated.
set_option_store_first(g, container, option, value) ==
    LET stored == [g EXCEPT !.opts =
                       Put(g.opts, container,
                           Put(Get(g.opts, container, EmptyDict), option, value))]
    IN IF option = "default_boot"
       THEN [g EXCEPT !.opts =
                 Put(g.opts, container,
                     Put(Get(g.opts, container, EmptyDict), option,
                         PyBool(Truthy(value))))]
       ELSE IF option = "devmodes"
       THEN IF value.kind # "set" THEN Raise(stored, "BadConfigError") ELSE stored
       ELSE Raise(stored, "BadConfigError")

\* ContainerGraph.set_option
set_option(g, container, option, value) ==
    IF option = "default_boot"
    THEN [g EXCEPT !.opts =
              Put(g.opts, container,
                  Put(Get(g.opts, container, EmptyDict), option,
                      PyBool(Truthy(value))))]
    ELSE IF option = "devmodes"
    THEN IF value.kind # "set"
         THEN Raise(g, "BadConfigError")
         ELSE [g EXCEPT !.opts =
                   Put(g.opts, container,
                       Put(Get(g.opts, container, EmptyDict), option, value))]
    ELSE Raise(g, "BadConfigError")

\* A mutant of add_build_dependency: the edge is reversed.
add_build_dependency_reversed(g, depender, provider) ==
    IF provider \notin g.containers \/ depender \notin g.containers
    THEN Raise(g, "ValueError")
    ELSE [g EXCEPT !.bdeps = Put(g.bdeps, provider, depender)]

\* ContainerGraph.add_build_dependency
add_build_dependency(g, depender, provider) ==
    IF provider \notin g.containers \/ depender \notin g.containers
    THEN Raise(g, "ValueError")
    ELSE [g EXCEPT !.bdeps = Put(g.bdeps, depender, provider)]

\* The list comprehension [self.containers[link] for link in ...]: a KeyError
\* when a link names no registered container.
resolves(g, links) == links \subseteq g.containers

\* A set as a list, in some iteration order.
RECURSIVE as_list(_)
as_list(S) ==
    IF S = {} THEN <<>>
    ELSE LET x == CHOOSE y \in S : TRUE IN <<x>> \o as_list(S \ {x})

\* ContainerGraph.add_containers, the body of the second loop for one container.
link_container(g, container) ==
    IF ~resolves(g, default_links(container)) THEN Raise(g, "KeyError")
    ELSE LET g1 == set_dependencies(g, container, as_list(default_links(container)))
         IN IF g1.exc # "none" THEN g1
            ELSE IF ~build_parent_in_prefix(container) THEN g1
            ELSE IF build_parent(container).name \notin g1.containers
            THEN Raise(g1, "KeyError")
            ELSE add_build_dependency(g1, container, build_parent(container).name)

\* ContainerGraph.add_containers, the second loop ("Link by dependency").
RECURSIVE link_containers(_, _, _)
link_containers(g, batch, i) ==
    IF i > Len(batch) THEN g
    ELSE LET g1 == link_container(g, batch[i])
         IN IF g1.exc # "none" THEN g1 ELSE link_containers(g1, batch, i + 1)

\* ContainerGraph.add_containers
add_containers(g, batch) ==
    link_containers(
        [g EXCEPT !.containers = @ \cup {batch[i] : i \in 1..Len(batch)}],
        batch, 1)

\* ContainerGraph.dependencies
dependencies(container) == Get(_dependencies, container, {})

\* ContainerGraph.dependents
dependents(container) ==
    {candidate \in DOMAIN _dependencies : container \in _dependencies[candidate]}

\* Python's None where a name or a container can stand.
None == "None"

\* ContainerGraph.build_parent
graph_build_parent(g, container) == Get(g.bdeps, container, None)

\* ContainerGraph.build_ancestry, the while loop run for at most fuel rounds:
\* the list built so far and whether the loop has ended.
RECURSIVE build_ancestry_loop(_, _, _, _)
build_ancestry_loop(g, container, ancestry, fuel) ==
    IF container = None THEN [ended |-> TRUE, ancestry |-> ancestry]
    ELSE IF fuel = 0 THEN [ended |-> FALSE, ancestry |-> ancestry]
    ELSE build_ancestry_loop(g, graph_build_parent(g, container),
                             <<container>> \o ancestry, fuel - 1)

\* A mutant of build_ancestry: the container itself is kept in the list.
build_ancestry_keep_self(g, container) ==
    build_ancestry_loop(g, container, <<>>, Cardinality(Objs) + 1)

\* ContainerGraph.build_ancestry: ancestry[:-1]. A chain over the finitely many
\* containers that has not ended after more rounds than there are containers
\* is on a cycle, and the loop of the code never ends.
build_ancestry(g, container) ==
    LET r == build_ancestry_loop(g, container, <<>>, Cardinality(Objs) + 1)
    IN [ended |-> r.ended,
        ancestry |-> IF r.ancestry = <<>> THEN <<>>
                     ELSE SubSeq(r.ancestry, 1, Len(r.ancestry) - 1)]

\* ContainerGraph.options
options(container) == Get(_options, container, EmptyDict)

\* ------------------------------------------------------------ profile.py
\* int(x) as Profile.apply uses it on a port key or value: the integer, or the
\* exception raised. A str converts when it is a decimal numeral.
IntOfStr == ("80" :> 80) @@ ("443" :> 443) @@ ("8080" :> 8080) @@ ("9090" :> 9090)

int(v) ==
    CASE v.kind \in {"int", "bool"} -> [exc |-> "none", n |-> v.n]
      [] v.kind = "str" ->
            LET t == CHOOSE x \in v.s : TRUE
            IN IF t \in DOMAIN IntOfStr
               THEN [exc |-> "none", n |-> IntOfStr[t]]
               ELSE [exc |-> "ValueError", n |-> 0]
      [] OTHER -> [exc |-> "TypeError", n |-> 0]

\* The per-container details Profile.load builds (lines 52-59), with the two
\* keys Profile.apply also reads: default_boot (details.get gives PyNone when
\* absent) and image_tag (None when absent).
Details(extra, ignore, devmodes, prts, env, boot, tag) ==
    [extra_links |-> extra, ignore_links |-> ignore, devmodes |-> devmodes,
     ports |-> prts, environment |-> env, ephemeral |-> FALSE,
     default_boot |-> boot, image_tag |-> tag]

\* A mutant of calculate_links: extra links are not validated.
calculate_links_unvalidated(details, container) ==
    IF details.ignore_links \ all_links(container) # {}
    THEN [exc |-> "BadConfigError", links |-> {}]
    ELSE [exc |-> "none",
          links |-> (default_links(container) \ details.ignore_links)
                        \cup details.extra_links]

\* Profile.calculate_links, for the details of the container's entry.
calculate_links(details, container) ==
    IF details.ignore_links \ all_links(container) # {}
    THEN [exc |-> "BadConfigError", links |-> {}]
    ELSE IF details.extra_links \ all_links(container) # {}
    THEN [exc |-> "BadConfigError", links |-> {}]
    ELSE [exc |-> "none",
          links |-> (default_links(container) \ details.ignore_links)
                        \cup details.extra_links]

\* A mutant of apply_links: the links are recomputed for every entry.
apply_links_always(g, details, container) ==
    LET r == calculate_links(details, container)
    IN IF r.exc # "none" THEN Raise(g, r.exc)
       ELSE IF ~resolves(g, r.links) THEN Raise(g, "KeyError")
       ELSE set_dependencies(g, container, as_list(r.links))

\* Profile.apply, "Apply container links" (lines 100-105).
apply_links(g, details, container) ==
    IF details.ignore_links = {} /\ details.extra_links = {} THEN g
    ELSE LET r == calculate_links(details, container)
         IN IF r.exc # "none" THEN Raise(g, r.exc)
            ELSE IF ~resolves(g, r.links) THEN Raise(g, "KeyError")
            ELSE set_dependencies(g, container, as_list(r.links))

\* A mutant of apply_options: the entry's devmodes are added to the devmodes
\* the container already has.
apply_options_merging(g, details, container, compat) ==
    LET g1 == IF compat THEN set_option(g, container, "in_profile", PyBool(TRUE))
              ELSE g
        g2 == IF g1.exc = "none" /\ Truthy(details.default_boot)
              THEN set_option(g1, container, "default_boot", PyBool(TRUE))
              ELSE g1
        g3 == IF g2.exc = "none" /\ ~foreground(container) /\ compat
              THEN set_option(g2, container, "default_boot", PyBool(TRUE))
              ELSE g2
        old == Get(Get(g3.opts, container, EmptyDict), "devmodes", PySet({}))
    IN IF g3.exc # "none" THEN g3
       ELSE set_option(g3, container, "devmodes",
                       PySet(details.devmodes \cup old.s))

\* A mutant of apply_options: the entry's devmodes are switched: those the
\* container has are dropped, the others are added.
apply_options_toggling(g, details, container, compat) ==
    LET g1 == IF compat THEN set_option(g, container, "in_profile", PyBool(TRUE))
              ELSE g
        g2 == IF g1.exc = "none" /\ Truthy(details.default_boot)
              THEN set_option(g1, container, "default_boot", PyBool(TRUE))
              ELSE g1
        g3 == IF g2.exc = "none" /\ ~foreground(container) /\ compat
              THEN set_option(g2, container, "default_boot", PyBool(TRUE))
              ELSE g2
        old == Get(Get(g3.opts, container, EmptyDict), "devmodes", PySet({}))
    IN IF g3.exc # "none" THEN g3
       ELSE set_option(g3, container, "devmodes",
                       PySet((details.devmodes \ old.s)
                                \cup (old.s \ details.devmodes)))

\* Profile.apply, the option settings (lines 108-119), one after the other.
apply_options(g, details, container, compat) ==
    LET g1 == IF compat THEN set_option(g, container, "in_profile", PyBool(TRUE))
              ELSE g
        g2 == IF g1.exc = "none" /\ Truthy(details.default_boot)
              THEN set_option(g1, container, "default_boot", PyBool(TRUE))
              ELSE g1
        g3 == IF g2.exc = "none" /\ ~foreground(container) /\ compat
              THEN set_option(g2, container, "default_boot", PyBool(TRUE))
              ELSE g2
    IN IF g3.exc # "none" THEN g3
       ELSE set_option(g3, container, "devmodes", PySet(details.devmodes))

\* Profile.apply, "Set ports to apply" (lines 121-126): a TypeError of int()
\* becomes a BadConfigError, any other exception passes through.
RECURSIVE apply_ports(_, _, _, _)
apply_ports(g, prts, container, i) ==
    IF i > Len(prts) THEN g
    ELSE LET b == int(prts[i][2])
             a == int(prts[i][1])
         IN IF b.exc = "TypeError" \/ (b.exc = "none" /\ a.exc = "TypeError")
            THEN Raise(g, "BadConfigError")
            ELSE IF b.exc # "none" THEN Raise(g, b.exc)
            ELSE IF a.exc # "none" THEN Raise(g, a.exc)
            ELSE apply_ports([g EXCEPT !.ports[container] = Put(@, a.n, b.n)],
                             prts, container, i + 1)

\* Profile.apply, "Store environment variables" (lines 131-132).
RECURSIVE apply_environment(_, _, _, _)
apply_environment(g, env, container, i) ==
    IF i > Len(env) THEN g
    ELSE apply_environment(
             [g EXCEPT !.env[container] = Put(@, env[i][1], env[i][2])],
             env, container, i + 1)

\* Profile.apply, the body of the loop for one entry whose container is present.
apply_entry(g, details, container, compat) ==
    LET g1 == apply_links(g, details, container)
        g2 == IF g1.exc # "none" THEN g1
              ELSE apply_options(g1, details, container, compat)
        g3 == IF g2.exc # "none" THEN g2
              ELSE apply_ports(g2, details.ports, container, 1)
        g4 == IF g3.exc # "none" \/ details.image_tag = None THEN g3
              ELSE [g3 EXCEPT !.tag[container] = details.image_tag]
    IN IF g4.exc # "none" THEN g4
       ELSE apply_environment(g4, details.environment, container, 1)

\* A mutant of apply_from: an entry that fails is skipped, the entries after it
\* are applied, and the failure is raised at the end.
RECURSIVE apply_from_skipping(_, _, _, _)
apply_from_skipping(g, entries, compat, i) ==
    IF i > Len(entries) THEN g
    ELSE IF entries[i].cname \notin g.containers
    THEN apply_from_skipping([g EXCEPT !.warned = @ \cup {entries[i].cname}],
                             entries, compat, i + 1)
    ELSE CHOOSE r \in
             {IF g1.exc # "none"
              THEN Raise(apply_from_skipping(Raise(g1, "none"), entries, compat, i + 1),
                         g1.exc)
              ELSE apply_from_skipping(g1, entries, compat, i + 1) :
                  g1 \in {apply_entry(g, entries[i].details, entries[i].cname,
                                      compat)}} : TRUE

\* A mutant of apply_from: an entry whose container is not in the graph makes
\* apply raise the KeyError of the lookup.
RECURSIVE apply_from_strict(_, _, _, _)
apply_from_strict(g, entries, compat, i) ==
    IF i > Len(entries) THEN g
    ELSE IF entries[i].cname \notin g.containers
    THEN Raise(g, "KeyError")
    ELSE CHOOSE r \in
             {IF g1.exc # "none" THEN g1
              ELSE apply_from_strict(g1, entries, compat, i + 1) :
                  g1 \in {apply_entry(g, entries[i].details, entries[i].cname,
                                      compat)}} : TRUE

\* Profile.apply, the loop over self.containers.items(), from entry i on. (g1
\* is the graph the entry's body leaves.)
RECURSIVE apply_from(_, _, _, _)
apply_from(g, entries, compat, i) ==
    IF i > Len(entries) THEN g
    ELSE IF entries[i].cname \notin g.containers
    THEN apply_from([g EXCEPT !.warned = @ \cup {entries[i].cname}],
                    entries, compat, i + 1)
    ELSE CHOOSE r \in
             {IF g1.exc # "none" THEN g1
              ELSE apply_from(g1, entries, compat, i + 1) :
                  g1 \in {apply_entry(g, entries[i].details, entries[i].cname,
                                      compat)}} : TRUE

\* Profile.apply
apply(g, profile, compat) == apply_from(g, profile.containers, compat, 1)

\* NullProfile.apply: nothing is applied.
null_apply(g) == g

\* ------------------------------------------------------------ profile files
Entry(cname, details) == [cname |-> cname, details |-> details]
Port(a, b) == <<a, b>>

\* The parsed profile files: the profiles of the library (profiles/<name>.yaml)
\* and the contents a user profile file (user_profile.yaml) can have. name is
\* the file's "name" key, which Profile.load stores as parent_profile.
ProfileTable ==
    [dev |->
        [name |-> "grand",
         containers |-> <<
            Entry("app", Details({}, {}, {"src", "dbg"},
                      <<Port(PyInt(80), PyInt(8080)), Port(PyInt(443), PyInt(8443))>>,
                      <<<<"MODE", "stage">>, <<"DEBUG", "1">>>>, PyNone, None))>>],
     empty |->
        [name |-> None,
         containers |-> <<
            Entry("ghost", Details({}, {}, {"src"}, <<>>, <<>>, PyNone, None))>>],
     child |->
        [name |-> "dev",
         containers |-> <<
            Entry("app", Details({"web"}, {"base"}, {"src"},
                      <<Port(PyInt(80), PyInt(9090))>>,
                      <<<<"MODE", "dev">>>>, PyBool(TRUE), "v2"))>>],
     layered |->
        [name |-> "empty",
         containers |-> <<
            Entry("ghost", Details({}, {}, {}, <<>>, <<>>, PyNone, None)),
            Entry("base", Details({}, {}, {"dbg"},
                      <<Port(PyStr("443"), PyStr("8080"))>>,
                      <<<<"MODE", "dev">>>>, PyInt(1), None)),
            Entry("web", Details({}, {"app"}, {}, <<>>, <<>>, PyNone, None))>>],
     badlink |->
        [name |-> None,
         containers |-> <<
            Entry("base", Details({}, {}, {"src"},
                      <<Port(PyInt(80), PyInt(9090))>>,
                      <<<<"DEBUG", "1">>>>, PyNone, "v3")),
            Entry("app", Details({"loop"}, {}, {}, <<>>, <<>>, PyNone, None)),
            Entry("web", Details({}, {}, {"src"}, <<>>, <<>>, PyNone, None))>>],
     badport |->
        [name |-> None,
         containers |-> <<
            Entry("app", Details({}, {"base"}, {"dbg"},
                      <<Port(PyInt(443), PyInt(8080)), Port(PyInt(80), PyNone)>>,
                      <<<<"MODE", "dev">>>>, PyNone, None))>>],
     wordport |->
        [name |-> None,
         containers |-> <<
            Entry("base", Details({}, {}, {},
                      <<Port(PyStr("http"), PyInt(8080))>>, <<>>, PyNone, None))>>],
     orphan |->
        [name |-> "nofile",
         containers |-> <<
            Entry("base", Details({}, {}, {}, <<>>, <<>>, PyNone, None))>>],
     root |->
        [name |-> None,
         containers |-> <<
            Entry("app", Details({"web"}, {}, {"dbg"},
                      <<Port(PyInt(443), PyInt(8443))>>,
                      <<<<"DEBUG", "1">>>>, PyNone, None))>>],
     mid |->
        [name |-> "root",
         containers |-> <<
            Entry("ghost", Details({}, {}, {"dbg"}, <<>>, <<>>, PyNone, None))>>],
     deep |->
        [name |-> "mid",
         containers |-> <<
            Entry("app", Details({}, {}, {"src"},
                      <<Port(PyInt(80), PyInt(9090))>>, <<>>, PyNone, None))>>]]

ProfileIds == DOMAIN ProfileTable

\* The profiles the library holds, by file name.
LibraryProfiles == {"dev", "empty", "root", "mid"}

\* What user_profile.yaml can hold; "absent" when the file does not exist.
UserProfiles ==
    {"absent", "child", "layered", "badlink", "badport", "orphan", "deep"}

\* ------------------------------------------------------------ profile.py: file
\* The strings that occur in links and devmodes, in the order sorted() gives.
StrOrder == <<"app", "base", "dbg", "loop", "src", "web">>

\* sorted(v) of a set of strings
sorted(S) == SelectSeq(StrOrder, LAMBDA x : x \in S)

\* set(l) of a list
set(l) == {l[i] : i \in 1..Len(l)}

\* The parsed contents of a profile file, what yaml.safe_load returns: a
\* mapping (or None for an empty file, isnone) whose "containers" are the
\* entries of a mapping from container name to details (or None), in file order.
FileData(isnone, data) == [isnone |-> isnone, data |-> data]
FileEntry(cname, details) == [cname |-> cname, isnone |-> FALSE, details |-> details]
FileEntryNone(cname) == [cname |-> cname, isnone |-> TRUE, details |-> EmptyDict]

\* A Profile object: its attributes parent_profile, description, version and
\* containers (the dict, as the list of its items).
ProfileObject(parent_profile, description, version, entries) ==
    [null |-> FALSE, parent_profile |-> parent_profile,
     description |-> description, version |-> version, containers |-> entries]

\* NullProfile(): the attribute defaults, and load() sets containers = {}.
NullProfile ==
    [null |-> TRUE, parent_profile |-> None, description |-> None,
     version |-> None, containers |-> <<>>]

\* Profile.load, the details built for one container (lines 50-59).
load_details(entry) ==
    LET details == IF entry.isnone THEN EmptyDict ELSE entry.details
    IN [Details(set(Get(details, "extra_links", <<>>)),
                set(Get(details, "ignore_links", <<>>)),
                set(Get(details, "devmodes", <<>>)),
                Get(details, "ports", <<>>),
                Get(details, "environment", <<>>), PyNone, None)
           EXCEPT !.ephemeral = Get(details, "ephemeral", FALSE)]

\* Profile(file_path): a new object, then load() of the parsed file.
load(file) ==
    IF file.isnone THEN ProfileObject(None, None, None, <<>>)
    ELSE LET items == Get(file.data, "containers", <<>>)
         IN ProfileObject(
                Get(file.data, "name", None),
                Get(file.data, "description", None),
                Get(file.data, "min-version", None),
                [i \in 1..Len(items) |->
                    Entry(items[i].cname, load_details(items[i]))])

\* The keys of the details and those whose value is a set.
DetailKeys ==
    {"extra_links", "ignore_links", "devmodes", "ports", "environment",
     "ephemeral", "default_boot", "image_tag"}
SetKeys == {"extra_links", "ignore_links", "devmodes"}

\* bool(v) of the value the details hold under key k
truthy_detail(details, k) ==
    CASE k \in SetKeys -> details[k] # {}
      [] k \in {"ports", "environment"} -> details[k] # <<>>
      [] k = "ephemeral" -> details[k]
      [] k = "default_boot" -> Truthy(details[k])
      [] OTHER -> details[k] \notin {None, ""}

\* A mutant of dump_details: every key is written, empty or not.
dump_details_all(details) ==
    [k \in DetailKeys |->
        IF k \in SetKeys THEN sorted(details[k]) ELSE details[k]]

\* Profile.dump, container_details_to_write (lines 69-75): the truthy values,
\* sets as sorted lists.
dump_details(details) ==
    [k \in {x \in DetailKeys : truthy_detail(details, x)} |->
        IF k \in SetKeys THEN sorted(details[k]) ELSE details[k]]

\* A mutant of dump_containers: ephemeral entries are written like the others.
RECURSIVE dump_containers_ephemeral(_, _)
dump_containers_ephemeral(entries, i) ==
    IF i > Len(entries) THEN <<>>
    ELSE LET written == dump_details(entries[i].details)
         IN IF DOMAIN written # {}
            THEN <<FileEntry(entries[i].cname, written)>>
                     \o dump_containers_ephemeral(entries, i + 1)
            ELSE dump_containers_ephemeral(entries, i + 1)

\* Profile.dump, the loop over self.containers.items() from entry i on.
RECURSIVE dump_containers(_, _)
dump_containers(entries, i) ==
    IF i > Len(entries) THEN <<>>
    ELSE LET written == dump_details(entries[i].details)
         IN IF ~entries[i].details.ephemeral /\ DOMAIN written # {}
            THEN <<FileEntry(entries[i].cname, written)>>
                     \o dump_containers(entries, i + 1)
            ELSE dump_containers(entries, i + 1)

\* Profile.dump
dump(profile) ==
    LET written == dump_containers(profile.containers, 1)
    IN ("name" :> profile.parent_profile)
         @@ (IF written # <<>> THEN ("containers" :> written) ELSE EmptyDict)
         @@ (IF profile.version \notin {None, ""}
             THEN ("min-version" :> profile.version) ELSE EmptyDict)

\* The file user_profile.yaml: whether it exists and what it holds.
NoFile == [exists |-> FALSE, file |-> FileData(TRUE, EmptyDict)]
File(file) == [exists |-> TRUE, file |-> file]

\* A mutant of save: the NullProfile is written like any other profile.
save_always_writes(profile, file) ==
    [disk |-> File(FileData(FALSE, dump(profile))), exc |-> "none"]

\* Profile.save: the file is written with the dump; NullProfile.save raises.
\* The result is the file and the exception raised.
save(profile, file) ==
    IF profile.null THEN [disk |-> file, exc |-> "BadConfigError"]
    ELSE [disk |-> File(FileData(FALSE, dump(profile))), exc |-> "none"]

\* The entries a hand-written profile file can hold: a full entry with
\* unsorted and repeated list items, an ephemeral entry, entries without
\* details, an entry for a container no library has.
FileEntries ==
    {<<>>,
     <<FileEntryNone("base")>>,
     <<FileEntry("web", EmptyDict),
       FileEntry("app", ("extra_links" :> <<"web", "web">>)
                          @@ ("ignore_links" :> <<"base">>)
                          @@ ("devmodes" :> <<"src", "dbg">>)
                          @@ ("ports" :> <<Port(PyInt(80), PyInt(9090))>>)
                          @@ ("environment" :> <<<<"MODE", "dev">>>>))>>,
     <<FileEntry("base", ("devmodes" :> <<"dbg">>) @@ ("ephemeral" :> TRUE)),
       FileEntry("ghost", ("devmodes" :> <<"src">>)),
       FileEntry("app", ("environment" :> <<<<"DEBUG", "1">>>>)
                          @@ ("ephemeral" :> FALSE))>>,
     <<FileEntry("app", ("ports" :> <<Port(PyStr("443"), PyStr("8080"))>>)
                          @@ ("ephemeral" :> TRUE))>>}

\* The files: empty, or a mapping with or without each top-level key.
Files ==
    {FileData(TRUE, EmptyDict)} \cup
    {FileData(FALSE,
        (IF name = "absent" THEN EmptyDict ELSE ("name" :> name))
          @@ (IF version = "absent" THEN EmptyDict ELSE ("min-version" :> version))
          @@ (IF name = None THEN ("description" :> "mine") ELSE EmptyDict)
          @@ (IF entries = <<>> THEN EmptyDict ELSE ("containers" :> entries))) :
        name \in {"absent", None, "dev"}, version \in {"absent", "1.2", ""},
        entries \in FileEntries}

\* ------------------------------------------------------------ cli/__init__.py: plugins
\* The App and its plugins as one value; exc is the exception in flight.
App ==
    [instances |-> instances, plugins |-> plugins, loaded |-> loaded,
     hooks |-> hooks, catalog |-> catalog, exc |-> "none"]

\* The App as AppGroup creates it, before load_plugins.
FreshApp ==
    [instances |-> <<>>, plugins |-> EmptyDict, loaded |-> <<>>,
     hooks |-> EmptyDict, catalog |-> EmptyDict, exc |-> "none"]

\* App(cli): no plugin yet. (hooks and catalog are created, empty, by
\* load_plugins.)
NoPlugins ==
    /\ instances = <<>>
    /\ plugins = EmptyDict
    /\ loaded = <<>>
    /\ hooks = EmptyDict
    /\ catalog = EmptyDict

\* PluginHook.valid_hooks
valid_hooks ==
    {"pre-build", "post-build", "pre-start", "post-start", "docker-failure"}

\* A mutant of add_hook: the hook type is not checked.
add_hook_unchecked(a, hook_type, receiver) ==
    [a EXCEPT !.hooks = Put(@, hook_type,
                            Append(Get(@, hook_type, <<>>), receiver))]

\* A mutant of add_hook: the receiver is put first in the list.
add_hook_prepending(a, hook_type, receiver) ==
    IF hook_type \notin valid_hooks THEN Raise(a, "ValueError")
    ELSE [a EXCEPT !.hooks = Put(@, hook_type,
                                 <<receiver>> \o Get(@, hook_type, <<>>))]

\* App.add_hook
add_hook(a, hook_type, receiver) ==
    IF hook_type \notin valid_hooks THEN Raise(a, "ValueError")
    ELSE [a EXCEPT !.hooks = Put(@, hook_type,
                                 Append(Get(@, hook_type, <<>>), receiver))]

\* A mutant of run_hooks_loop: a receiver that raises does not end the loop;
\* the error is raised once every receiver has been called.
RECURSIVE run_hooks_loop_isolating(_, _, _, _)
run_hooks_loop_isolating(r, receivers, i, bad) ==
    IF i > Len(receivers) THEN r
    ELSE run_hooks_loop_isolating(
            [r EXCEPT !.called = Append(@, receivers[i]),
                      !.exc = IF i = bad THEN "ReceiverError" ELSE @],
            receivers, i + 1, bad)

\* App.run_hooks, the loop "for hook in hooks: hook(**kwargs)" from receiver i
\* on: each receiver is called in turn; the receiver at position bad raises,
\* which ends the loop. (r.called lists the receivers called so far.)
RECURSIVE run_hooks_loop(_, _, _, _)
run_hooks_loop(r, receivers, i, bad) ==
    IF i > Len(receivers) \/ r.exc # "none" THEN r
    ELSE run_hooks_loop(
            [r EXCEPT !.called = Append(@, receivers[i]),
                      !.exc = IF i = bad THEN "ReceiverError" ELSE "none"],
            receivers, i + 1, bad)

\* A mutant of run_hooks: the call returns what the receivers returned.
run_hooks_aggregating(a, hook_type, bad, result) ==
    LET receivers == Get(a.hooks, hook_type, <<>>)
        r == run_hooks_loop([exc |-> "none", called |-> <<>>, ret |-> FALSE],
                            receivers, 1, bad)
    IN IF r.exc # "none" THEN r
       ELSE [r EXCEPT !.ret = Len(receivers) > 0 /\ result]

\* App.run_hooks: the receivers of hook_type are called; what they return
\* (result) is dropped; the call returns bool(hooks).
run_hooks(a, hook_type, bad, result) ==
    LET receivers == Get(a.hooks, hook_type, <<>>)
        r == run_hooks_loop([exc |-> "none", called |-> <<>>, ret |-> FALSE],
                            receivers, 1, bad)
    IN IF r.exc # "none" THEN r
       ELSE [r EXCEPT !.ret = Len(receivers) > 0]

\* App.add_catalog_type
add_catalog_type(a, name) ==
    IF name \in DOMAIN a.catalog THEN Raise(a, "ValueError")
    ELSE [a EXCEPT !.catalog = Put(@, name, <<>>)]

\* A mutant of add_catalog_item: an item added again takes the new value.
add_catalog_item_overwriting(a, type_name, name, value) ==
    IF type_name \notin DOMAIN a.catalog THEN Raise(a, "ValueError")
    ELSE IF \E i \in 1..Len(a.catalog[type_name]) : a.catalog[type_name][i][1] = name
    THEN [a EXCEPT !.catalog[type_name] =
                      [i \in 1..Len(@) |->
                          IF @[i][1] = name THEN <<name, value>> ELSE @[i]]]
    ELSE [a EXCEPT !.catalog[type_name] = Append(@, <<name, value>>)]

\* A mutant of add_catalog_item: the new item is put first.
add_catalog_item_prepending(a, type_name, name, value) ==
    IF type_name \notin DOMAIN a.catalog THEN Raise(a, "ValueError")
    ELSE IF \E i \in 1..Len(a.catalog[type_name]) : a.catalog[type_name][i][1] = name
    THEN Raise(a, "ValueError")
    ELSE [a EXCEPT !.catalog[type_name] = <<<<name, value>>>> \o @]

\* App.add_catalog_item: the items of a type are its (name, value) pairs, in
\* the order they were added.
add_catalog_item(a, type_name, name, value) ==
    IF type_name \notin DOMAIN a.catalog THEN Raise(a, "ValueError")
    ELSE IF \E i \in 1..Len(a.catalog[type_name]) : a.catalog[type_name][i][1] = name
    THEN Raise(a, "ValueError")
    ELSE [a EXCEPT !.catalog[type_name] = Append(@, <<name, value>>)]

\* App.get_catalog_items
get_catalog_items(a, type_name) ==
    IF type_name \notin DOMAIN a.catalog THEN [exc |-> "ValueError", ret |-> <<>>]
    ELSE [exc |-> "none", ret |-> a.catalog[type_name]]

\* App.get_plugin: self.plugins[klass], the number of the instance stored for
\* the class; a KeyError when there is none.
get_plugin(a, klass) ==
    IF klass \notin DOMAIN a.plugins THEN [exc |-> "KeyError", ret |-> 0]
    ELSE [exc |-> "none", ret |-> a.plugins[klass]]

\* One statement of a plugin's load(): a registration with the App.
Step(call, args) == [call |-> call, args |-> args]

\* The plugin classes the entry points can yield: their provides, requires and
\* the statements of their load(); imports is false for an entry point whose
\* load raises ImportError. waits is WaitsPlugin; boot needs it and ui needs
\* both; tail needs and provides nothing; waits2 provides what waits provides;
\* ping and pong require each other.
PluginTable ==
    [waits |->
        [imports |-> TRUE, provides |-> <<"waits">>, requires |-> <<>>,
         load |-> <<Step("add_hook", <<"post-start">>),
                    Step("add_catalog_type", <<"wait">>),
                    Step("add_catalog_item", <<"wait", "http">>),
                    Step("add_catalog_item", <<"wait", "https">>),
                    Step("add_catalog_item", <<"wait", "tcp">>),
                    Step("add_catalog_item", <<"wait", "time">>),
                    Step("add_catalog_item", <<"wait", "file">>)>>],
     boot |->
        [imports |-> TRUE, provides |-> <<"boot">>, requires |-> <<"waits">>,
         load |-> <<Step("add_hook", <<"post-start">>),
                    Step("add_hook", <<"pre-build">>),
                    Step("add_hook", <<"post-build">>),
                    Step("add_catalog_item", <<"wait", "boot">>)>>],
     ui |->
        [imports |-> TRUE, provides |-> <<>>, requires |-> <<"boot", "waits">>,
         load |-> <<Step("add_hook", <<"post-start">>),
                    Step("add_hook", <<"post-start">>),
                    Step("add_hook", <<"pre-build">>),
                    Step("add_hook", <<"post-build">>)>>],
     tail |->
        [imports |-> TRUE, provides |-> <<>>, requires |-> <<>>,
         load |-> <<Step("add_hook", <<"post-start">>),
                    Step("add_hook", <<"docker-failure">>),
                    Step("add_catalog_type", <<"registry">>),
                    Step("add_catalog_item", <<"registry", "http">>)>>],
     waits2 |->
        [imports |-> TRUE, provides |-> <<"tcp", "waits">>, requires |-> <<>>,
         load |-> <<Step("add_catalog_type", <<"wait">>)>>],
     ping |->
        [imports |-> TRUE, provides |-> <<"ping">>, requires |-> <<"pong">>,
         load |-> <<Step("add_hook", <<"pre-start">>)>>],
     pong |->
        [imports |-> TRUE, provides |-> <<"pong">>, requires |-> <<"ping">>,
         load |-> <<Step("add_hook", <<"pre-start">>)>>],
     broken |->
        [imports |-> FALSE, provides |-> <<>>, requires |-> <<>>,
         load |-> <<>>]]

PluginClasses == DOMAIN PluginTable

\* The plugin classes in the order of their identity, which breaks the ties
\* of the sort.
PluginOrder ==
    <<"boot", "broken", "ping", "pong", "tail", "ui", "waits", "waits2">>

\* instance.load(): the statements of the plugin's load(), from statement i
\* on; a registration that raises ends it.
RECURSIVE plugin_load(_, _, _, _)
plugin_load(a, plugin, instance, i) ==
    LET steps == PluginTable[plugin].load
    IN IF i > Len(steps) \/ a.exc # "none" THEN a
       ELSE LET step == steps[i]
                receiver == [plugin |-> plugin, instance |-> instance]
            IN CHOOSE r \in
                 {plugin_load(a1, plugin, instance, i + 1) :
                     a1 \in {CASE step.call = "add_hook" ->
                                    add_hook(a, step.args[1], receiver)
                               [] step.call = "add_catalog_type" ->
                                    add_catalog_type(a, step.args[1])
                               [] OTHER ->
                                    add_catalog_item(a, step.args[1],
                                                     step.args[2], plugin)}} : TRUE

\* The provided map of load_plugins: the plugin of the list providing token p.
provided(discovered, p) ==
    CHOOSE plugin \in set(discovered) : p \in set(PluginTable[plugin].provides)

\* A mutant of predecessors: no predecessor is handed to the sort.
predecessors_none(discovered, x) == {}

\* The predecessors load_plugins hands to the sort:
\* [provided[r] for r in x.requires]
predecessors(discovered, x) ==
    {provided(discovered, r) : r \in set(PluginTable[x].requires)}

\* dependency_sort: the items, each after all of its predecessors; among the
\* items whose predecessors are all placed, the first in the identity order is
\* placed next; a cycle error when items are left and none can be placed.
RECURSIVE dependency_sort(_, _, _)
dependency_sort(discovered, left, placed) ==
    IF left = {} THEN [exc |-> "none", items |-> placed]
    ELSE LET eligible == {x \in left :
                             predecessors(discovered, x) \subseteq set(placed)}
         IN IF eligible = {} THEN [exc |-> "CycleError", items |-> placed]
            ELSE LET next == SelectSeq(PluginOrder, LAMBDA x : x \in eligible)[1]
                 IN dependency_sort(discovered, left \ {next}, Append(placed, next))

\* A mutant of load_each: the sorted list is loaded from its end.
RECURSIVE load_each_reversed(_, _, _)
load_each_reversed(a, order, i) ==
    IF i > Len(order) \/ a.exc # "none" THEN a
    ELSE LET instance == Len(a.instances) + 1
             plugin == order[Len(order) + 1 - i]
         IN CHOOSE r \in
              {load_each_reversed(a2, order, i + 1) :
                  a2 \in {plugin_load(
                             [a EXCEPT !.instances = Append(@, plugin),
                                       !.plugins = Put(@, plugin, instance),
                                       !.loaded = Append(@, instance)],
                             plugin, instance, 1)}} : TRUE

\* A mutant of load_each: each plugin is instantiated twice; one instance is
\* stored, the other is loaded.
RECURSIVE load_each_twice(_, _, _)
load_each_twice(a, order, i) ==
    IF i > Len(order) \/ a.exc # "none" THEN a
    ELSE LET instance == Len(a.instances) + 1
         IN CHOOSE r \in
              {load_each_twice(a2, order, i + 1) :
                  a2 \in {plugin_load(
                             [a EXCEPT !.instances = Append(Append(@, order[i]), order[i]),
                                       !.plugins = Put(@, order[i], instance),
                                       !.loaded = Append(@, instance + 1)],
                             order[i], instance + 1, 1)}} : TRUE

\* App.load_plugins, "Load plugins" (lines 74-78): each plugin of the sorted
\* list, from position i on, is instantiated, stored and loaded.
RECURSIVE load_each(_, _, _)
load_each(a, order, i) ==
    IF i > Len(order) \/ a.exc # "none" THEN a
    ELSE LET instance == Len(a.instances) + 1
         IN CHOOSE r \in
              {load_each(a2, order, i + 1) :
                  a2 \in {plugin_load(
                             [a EXCEPT !.instances = Append(@, order[i]),
                                       !.plugins = Put(@, order[i], instance),
                                       !.loaded = Append(@, instance)],
                             order[i], instance, 1)}} : TRUE

\* Two of the discovered plugins, or one of them twice, provide the same token.
provides_twice(discovered) ==
    \E i, j \in 1..Len(discovered) :
        \E k \in 1..Len(PluginTable[discovered[i]].provides) :
            \E l \in 1..Len(PluginTable[discovered[j]].provides) :
                /\ i < j \/ (i = j /\ k < l)
                /\ PluginTable[discovered[i]].provides[k]
                      = PluginTable[discovered[j]].provides[l]

\* A discovered plugin requires a token none of them provides.
requires_missing(discovered) ==
    \E i \in 1..Len(discovered) :
        \E r \in set(PluginTable[discovered[i]].requires) :
            \A j \in 1..Len(discovered) :
                r \notin set(PluginTable[discovered[j]].provides)

\* A mutant of load_plugins: the plugins are loaded as discovered and the
\* capabilities are validated afterwards.
load_plugins_then_validate(a, discovered) ==
    LET a0 == [a EXCEPT !.hooks = EmptyDict, !.catalog = EmptyDict]
    IN IF \E i \in 1..Len(discovered) : ~PluginTable[discovered[i]].imports
       THEN Raise(a0, "SystemExit")
       ELSE LET a1 == load_each(a0, discovered, 1)
            IN IF a1.exc # "none" THEN a1
               ELSE IF provides_twice(discovered) \/ requires_missing(discovered)
               THEN Raise(a1, "SystemExit")
               ELSE a1

\* A mutant of load_plugins: the validated plugins are loaded as discovered,
\* without the sort.
load_plugins_unsorted(a, discovered) ==
    LET a0 == [a EXCEPT !.hooks = EmptyDict, !.catalog = EmptyDict]
    IN IF \E i \in 1..Len(discovered) : ~PluginTable[discovered[i]].imports
       THEN Raise(a0, "SystemExit")
       ELSE IF provides_twice(discovered) THEN Raise(a0, "SystemExit")
       ELSE IF requires_missing(discovered) THEN Raise(a0, "SystemExit")
       ELSE load_each(a0, discovered, 1)

\* App.load_plugins: the entry points are imported, the capabilities are
\* validated (sys.exit(1) on a failure), the plugins are sorted and loaded.
load_plugins(a, discovered) ==
    LET a0 == [a EXCEPT !.hooks = EmptyDict, !.catalog = EmptyDict]
    IN IF \E i \in 1..Len(discovered) : ~PluginTable[discovered[i]].imports
       THEN Raise(a0, "SystemExit")
       ELSE IF provides_twice(discovered) THEN Raise(a0, "SystemExit")
       ELSE IF requires_missing(discovered) THEN Raise(a0, "SystemExit")
       ELSE LET order == dependency_sort(discovered, set(discovered), <<>>)
            IN IF order.exc # "none" THEN Raise(a0, order.exc)
               ELSE load_each(a0, order.items, 1)

\* ------------------------------------------------------------ plugins/waits.py
\* One entry of container.waits: its type and its params (a port).
WaitEntry(type, port) == [type |-> type, port |-> port]

\* wait_class(**params): the wait object made for entry i. The classes are
\* attr.s classes: two objects of one class with the same params are equal
\* (==), whichever entries they were made for.
WaitInstance(i, wait) == [id |-> i, type |-> wait.type, port |-> wait.port]
Equal(w1, w2) == w1.type = w2.type /\ w1.port = w2.port

\* list.remove(x): the list without its first element equal to x.
list_remove(l, x) ==
    LET first == CHOOSE i \in 1..Len(l) :
                    /\ Equal(l[i], x)
                    /\ \A j \in 1..(i - 1) : ~Equal(l[j], x)
    IN [k \in 1..(Len(l) - 1) |-> IF k < first THEN l[k] ELSE l[k + 1]]

\* WaitsPlugin.post_start, lines 32-48: a wait object for every entry; a type
\* the wait catalog does not have raises DockerRuntimeError.
RECURSIVE build_waits(_, _, _, _)
build_waits(a, waits, i, wait_instances) ==
    IF i > Len(waits) THEN [exc |-> "none", wait_instances |-> wait_instances]
    ELSE LET items == get_catalog_items(a, "wait")
         IN IF items.exc # "none"
            THEN [exc |-> items.exc, wait_instances |-> wait_instances]
            ELSE IF \A k \in 1..Len(items.ret) : items.ret[k][1] # waits[i].type
            THEN [exc |-> "DockerRuntimeError", wait_instances |-> wait_instances]
            ELSE build_waits(a, waits, i + 1,
                             Append(wait_instances, WaitInstance(i, waits[i])))

\* WaitsPlugin.post_start, lines 59-62: the waits of a copy of the list are
\* polled in turn; polls[round][id] is what ready() of the wait made for entry
\* id returns in this round. A wait that is ready has its task finished and
\* is removed from the list by list.remove.
RECURSIVE check_waits(_, _, _, _, _)
check_waits(p, copy, j, round, polls) ==
    IF j > Len(copy) THEN p
    ELSE LET wait_instance == copy[j]
             ready == polls[round][wait_instance.id]
             p1 == [p EXCEPT !.polled =
                       Append(@, [round |-> round, id |-> wait_instance.id,
                                  ready |-> ready])]
         IN check_waits(
               IF ready
               THEN [p1 EXCEPT !.finished = Append(@, wait_instance.id),
                               !.wait_instances = list_remove(@, wait_instance)]
               ELSE p1,
               copy, j + 1, round, polls)

\* WaitsPlugin.post_start, the loop "while wait_instances" (lines 51-63) from
\* a round on: running[round] is what host.container_running returns.
RECURSIVE wait_loop(_, _, _, _)
wait_loop(p, round, running, polls) ==
    IF p.wait_instances = <<>> THEN p
    ELSE IF round > MaxRounds THEN [p EXCEPT !.exc = "diverges"]
    ELSE IF ~running[round]
    THEN [p EXCEPT !.exc = "DockerRuntimeError", !.status = "Dead",
                   !.rounds = round]
    ELSE wait_loop(check_waits([p EXCEPT !.rounds = round], p.wait_instances,
                               1, round, polls),
                   round + 1, running, polls)

\* WaitsPlugin.post_start
post_start(a, waits, running, polls) ==
    LET built == build_waits(a, waits, 1, <<>>)
        p == [exc |-> built.exc, wait_instances |-> built.wait_instances,
              polled |-> <<>>, finished |-> <<>>, rounds |-> 0,
              status |-> "none"]
    IN IF p.exc # "none" THEN p
       ELSE wait_loop(p, 1, running, polls)

\* ------------------------------------------------------------ docker/build.py
\* One entry of the stream host.client.build returns, as json.loads gives it:
\* whether it has a 'stream' key, whether that text starts with 'Step ', and
\* whether it has an 'error' key.
StreamEntry(stream, step, error) ==
    [stream |-> stream, step |-> step, error |-> error]

\* Builder.build, the loop over the stream (lines 97-111), from entry i on:
\* a step raises progress, an error entry clears build_successful; the loop
\* goes on to the end of the stream.
RECURSIVE build_stream(_, _, _)
build_stream(b, result, i) ==
    IF i > Len(result) THEN b
    ELSE build_stream(
            [b EXCEPT !.progress = IF result[i].stream /\ result[i].step
                                   THEN @ + 1 ELSE @,
                      !.build_successful = IF result[i].error THEN FALSE ELSE @,
                      !.read = @ + 1],
            result, i + 1)

\* Builder.build before anything has run.
NoBuild ==
    [exc |-> "none", pre |-> <<>>, started |-> FALSE, read |-> 0,
     progress |-> 0, build_successful |-> TRUE, post_run |-> FALSE,
     post |-> <<>>, status |-> "none"]

\* A mutant of build: the post-build hooks run after a failed build too,
\* before the failure is raised.
build_hooks_always(a, context, result, bad_pre, bad_post) ==
    LET pre == run_hooks(a, "pre-build", bad_pre, FALSE)
        b0 == [NoBuild EXCEPT !.pre = pre.called, !.exc = pre.exc]
    IN IF b0.exc # "none" THEN b0
       ELSE IF ~context THEN [b0 EXCEPT !.exc = "ValueError"]
       ELSE LET b1 == build_stream([b0 EXCEPT !.started = TRUE], result, 1)
                post == run_hooks(a, "post-build", bad_post, FALSE)
                b2 == [b1 EXCEPT !.post_run = TRUE, !.post = post.called,
                                 !.exc = post.exc]
            IN IF b2.exc # "none" THEN b2
               ELSE IF ~b1.build_successful
               THEN [b2 EXCEPT !.status = "FAILED", !.exc = "BuildFailureError"]
               ELSE [b2 EXCEPT !.status = "Done"]

\* Builder.build: the pre-build hooks, the build context (context is false
\* when make_build_context raises its ValueError), the build and its stream,
\* then either the failure (lines 116-120) or the post-build hooks and the end
\* of the task (122-141). bad_pre and bad_post are the receivers that raise.
build(a, context, result, bad_pre, bad_post) ==
    LET pre == run_hooks(a, "pre-build", bad_pre, FALSE)
        b0 == [NoBuild EXCEPT !.pre = pre.called, !.exc = pre.exc]
    IN IF b0.exc # "none" THEN b0
       ELSE IF ~context THEN [b0 EXCEPT !.exc = "ValueError"]
       ELSE LET b1 == build_stream([b0 EXCEPT !.started = TRUE], result, 1)
            IN IF ~b1.build_successful
               THEN [b1 EXCEPT !.status = "FAILED", !.exc = "BuildFailureError"]
               ELSE LET post == run_hooks(a, "post-build", bad_post, FALSE)
                        b2 == [b1 EXCEPT !.post_run = TRUE,
                                         !.post = post.called, !.exc = post.exc]
                    IN IF b2.exc # "none" THEN b2
                       ELSE [b2 EXCEPT !.status = "Done"]

\* ------------------------------------------------------------ cli/__init__.py
\* A mutant of load_profiles: the parent's own parent, and so on up the chain,
\* is loaded and applied before the parent. (fuel bounds the chain.)
RECURSIVE apply_chain(_, _, _)
apply_chain(g, name, fuel) ==
    IF name = None \/ fuel = 0 THEN g
    ELSE IF name \notin LibraryProfiles THEN Raise(g, "IOError")
    ELSE CHOOSE r \in
            {IF g0.exc # "none" THEN g0
             ELSE apply(g0, ProfileTable[name], TRUE) :
                 g0 \in {apply_chain(g, ProfileTable[name].name, fuel - 1)}} : TRUE

load_profiles_chained(g, user) ==
    IF user = "absent" THEN null_apply(g)
    ELSE CHOOSE r \in
            {IF g1.exc # "none" THEN g1
             ELSE apply(g1, ProfileTable[user], FALSE) :
                 g1 \in {apply_chain(g, ProfileTable[user].name, 3)}} : TRUE

\* App.load_profiles: the parent profile named by the user profile is applied
\* in compatibility mode, then the user profile. (g1 is the graph the parent's
\* apply leaves.)
load_profiles(g, user) ==
    IF user = "absent" THEN null_apply(g)
    ELSE LET parent == ProfileTable[user].name
         IN CHOOSE r \in
                {IF g1.exc # "none" THEN g1
                 ELSE apply(g1, ProfileTable[user], FALSE) :
                     g1 \in {IF parent = None THEN g
                             ELSE IF parent \notin LibraryProfiles
                             THEN Raise(g, "IOError")
                             ELSE apply(g, ProfileTable[parent], TRUE)}} : TRUE

\* ------------------------------------------------------------ the machine
\* The lists of length 0..n over S, and those without repetition.
RECURSIVE Lists(_, _)
Lists(S, n) ==
    IF n = 0 THEN {<<>>}
    ELSE LET shorter == Lists(S, n - 1)
         IN shorter \cup {Append(l, x) : l \in shorter, x \in S}

Distinct(l) == \A i, j \in 1..Len(l) : i # j => l[i] # l[j]

\* The batches add_containers is called with: up to two distinct containers,
\* in either order.
Batches == {l \in Lists(Objs, 2) : Distinct(l)}

\* The providers lists set_dependencies is called with: none, one or two
\* providers, so that a later provider can fail after an earlier one passed.
ProviderLists == Lists({"base", "web"}, 2)

OptionKeys == {"default_boot", "devmodes", "in_profile", "colour"}

OptionValues ==
    {PyBool(TRUE), PyInt(0), PyStr(""), PyStr("yes"), PyNone, PySet({}),
     PySet({"src"})}

\* The outcome of a call: the graph it leaves, and what it returned or raised.
Outcome(g, op, args, ret) ==
    /\ containers' = g.containers
    /\ _dependencies' = g.deps
    /\ _build_dependencies' = g.bdeps
    /\ _options' = g.opts
    /\ ports' = g.ports
    /\ environment' = g.env
    /\ image_tag' = g.tag
    /\ last' = [op |-> op, args |-> args, exc |-> g.exc, warned |-> g.warned,
                ret |-> ret]
    /\ calls' = calls + 1
    /\ UNCHANGED <<store_vars, app_vars>>

\* A call can be made: the program has not hung and the bound is not reached.
Ready == calls < MaxCalls /\ last.exc # "diverges"

\* The graph before load_containers has run.
EmptyGraph ==
    [containers |-> {}, deps |-> EmptyDict, bdeps |-> EmptyDict,
     opts |-> EmptyDict, ports |-> [c \in Objs |-> config_ports(c)],
     env |-> [c \in Objs |-> config_environment(c)],
     tag |-> [c \in Objs |-> config_image_tag(c)], warned |-> {}, exc |-> "none"]

\* ContainerGraph(path): load_containers hands the containers found in the
\* library directory to add_containers. A constructor that raises builds no
\* graph, so the graphs that exist are those of the libraries that load.
load_containers(library) == add_containers(EmptyGraph, as_list(library))

Init ==
    \E library \in SUBSET Objs :
        LET g == load_containers(library)
        IN /\ g.exc = "none"
           /\ containers = g.containers
           /\ _dependencies = g.deps
           /\ _build_dependencies = g.bdeps
           /\ _options = g.opts
           /\ ports = g.ports
           /\ environment = g.env
           /\ image_tag = g.tag
           /\ last = [op |-> "load_containers", args |-> <<library>>,
                      exc |-> "none", warned |-> {}, ret |-> <<>>]
           /\ calls = 0
           /\ user_profile = NullProfile
           /\ disk = NoFile
           /\ NoPlugins

AddContainers ==
    /\ Ready
    /\ \E batch \in Batches :
          Outcome(add_containers(Graph, batch), "add_containers", <<batch>>, <<>>)

SetDependencies ==
    /\ Ready
    /\ \E depender \in Objs, providers \in ProviderLists :
          Outcome(set_dependencies(Graph, depender, providers),
                  "set_dependencies", <<depender, providers>>, <<>>)

AddBuildDependency ==
    /\ Ready
    /\ \E depender \in Objs, provider \in Objs :
          Outcome(add_build_dependency(Graph, depender, provider),
                  "add_build_dependency", <<depender, provider>>, <<>>)

SetOption ==
    /\ Ready
    /\ \E container \in Objs, option \in OptionKeys, value \in OptionValues :
          Outcome(set_option(Graph, container, option, value),
                  "set_option", <<container, option, value>>, <<>>)

BuildAncestry ==
    /\ Ready
    /\ \E container \in containers :
          LET r == build_ancestry(Graph, container)
          IN Outcome(IF r.ended THEN Graph ELSE Raise(Graph, "diverges"),
                     "build_ancestry", <<container>>, r.ancestry)

Apply ==
    /\ Ready
    /\ \E p \in ProfileIds, compat \in BOOLEAN :
          Outcome(apply(Graph, ProfileTable[p], compat), "apply", <<p, compat>>, <<>>)

LoadProfiles ==
    /\ Ready
    /\ \E user \in UserProfiles :
          Outcome(load_profiles(Graph, user), "load_profiles", <<user>>, <<>>)

\* The graph's operations and Profile.apply, in any order.
Next ==
    \/ AddContainers
    \/ SetDependencies
    \/ AddBuildDependency
    \/ BuildAncestry
    \/ Apply

Spec == Init /\ [][Next]_vars

\* The option bag alone.
NextOptions == SetOption

SpecOptions == Init /\ [][NextOptions]_vars

\* The profile stack: profiles applied one by one, or loaded as a stack.
NextProfiles ==
    \/ Apply
    \/ LoadProfiles

SpecProfiles == Init /\ [][NextProfiles]_vars

\* calculate_links on its own: the entry's link sets and the container are
\* drawn first, then the function is applied to them.
InitLinks ==
    /\ containers = {}
    /\ _dependencies = EmptyDict
    /\ _build_dependencies = EmptyDict
    /\ _options = EmptyDict
    /\ ports = EmptyGraph.ports
    /\ environment = EmptyGraph.env
    /\ image_tag = EmptyGraph.tag
    /\ \E extra \in SUBSET Objs, ignore \in SUBSET Objs, container \in Objs :
          last = [op |-> "entry", args |-> <<extra, ignore, container>>,
                  exc |-> "none", warned |-> {}, ret |-> {}]
    /\ calls = 0
    /\ user_profile = NullProfile
    /\ disk = NoFile
    /\ NoPlugins

CalculateLinks ==
    /\ last.op = "entry"
    /\ LET details == Details(last.args[1], last.args[2], {}, <<>>, <<>>, PyNone, None)
           r == calculate_links(details, last.args[3])
       IN last' = [op |-> "calculate_links", args |-> last.args, exc |-> r.exc,
                   warned |-> {}, ret |-> r.links]
    /\ calls' = calls + 1
    /\ UNCHANGED <<containers, _dependencies, _build_dependencies, _options,
                   ports, environment, image_tag>>
    /\ UNCHANGED <<store_vars, app_vars>>

SpecLinks == InitLinks /\ [][CalculateLinks]_vars

\* The user profile object, its file and the graph it is applied to: the
\* profile is one a file can be loaded into, or the NullProfile; no file yet.
InitStore ==
    /\ \E library \in SUBSET Objs :
          LET g == load_containers(library)
          IN /\ g.exc = "none"
             /\ containers = g.containers
             /\ _dependencies = g.deps
             /\ _build_dependencies = g.bdeps
             /\ _options = g.opts
             /\ ports = g.ports
             /\ environment = g.env
             /\ image_tag = g.tag
    /\ user_profile \in {NullProfile} \cup {load(file) : file \in Files}
    /\ disk = NoFile
    /\ last = [op |-> "Profile", args |-> <<>>, exc |-> "none", warned |-> {},
               ret |-> <<>>]
    /\ calls = 0
    /\ NoPlugins

\* user_profile.dump()
Dump ==
    /\ Ready
    /\ last' = [op |-> "dump", args |-> <<>>, exc |-> "none", warned |-> {},
                ret |-> dump(user_profile)]
    /\ calls' = calls + 1
    /\ UNCHANGED <<graph_vars, store_vars, app_vars>>

\* user_profile.save()
Save ==
    /\ Ready
    /\ LET r == save(user_profile, disk)
       IN /\ disk' = r.disk
          /\ last' = [op |-> "save", args |-> <<>>, exc |-> r.exc,
                      warned |-> {}, ret |-> <<>>]
    /\ calls' = calls + 1
    /\ UNCHANGED <<graph_vars, user_profile, app_vars>>

\* App.load_profiles, lines 91-94: the user profile is loaded from its file,
\* or is the NullProfile when there is no file.
LoadUser ==
    /\ Ready
    /\ user_profile' = IF disk.exists THEN load(disk.file) ELSE NullProfile
    /\ last' = [op |-> "load", args |-> <<>>, exc |-> "none", warned |-> {},
                ret |-> <<>>]
    /\ calls' = calls + 1
    /\ UNCHANGED <<graph_vars, disk, app_vars>>

\* App.load_profiles, line 107: user_profile.apply(self.containers)
ApplyUser ==
    /\ Ready
    /\ Outcome(IF user_profile.null THEN null_apply(Graph)
               ELSE apply(Graph, user_profile, FALSE),
               "user_profile.apply", <<>>, <<>>)

\* App.load_profiles, lines 96-105: the profile the user profile names as its
\* parent is loaded from the library and applied in compatibility mode.
ApplyParent ==
    /\ Ready
    /\ user_profile.parent_profile \notin {None, ""}
    /\ Outcome(IF user_profile.parent_profile \notin LibraryProfiles
               THEN Raise(Graph, "IOError")
               ELSE apply(Graph, ProfileTable[user_profile.parent_profile], TRUE),
               "parent_profile.apply", <<user_profile.parent_profile>>, <<>>)

NextStore ==
    \/ Dump
    \/ Save
    \/ LoadUser
    \/ ApplyParent
    \/ ApplyUser

SpecStore == InitStore /\ [][NextStore]_vars


\* What the entry points can yield: up to three plugin classes, in any order.
Discoveries == {l \in Lists(PluginClasses, 3) : Distinct(l)}

\* The outcome of a call on the App: the plugins, hooks and catalog it leaves.
AppOutcome(a, op, args, ret) ==
    /\ instances' = a.instances
    /\ plugins' = a.plugins
    /\ loaded' = a.loaded
    /\ hooks' = a.hooks
    /\ catalog' = a.catalog
    /\ last' = [op |-> op, args |-> args, exc |-> a.exc, warned |-> {},
                ret |-> ret]
    /\ calls' = calls + 1
    /\ UNCHANGED <<graph_vars, store_vars>>

\* The App before load_plugins, without graph and profile: AppGroup.__init__
\* makes it and calls load_plugins on it at once.
InitPlugins ==
    /\ containers = {}
    /\ _dependencies = EmptyDict
    /\ _build_dependencies = EmptyDict
    /\ _options = EmptyDict
    /\ ports = EmptyGraph.ports
    /\ environment = EmptyGraph.env
    /\ image_tag = EmptyGraph.tag
    /\ user_profile = NullProfile
    /\ disk = NoFile
    /\ NoPlugins
    /\ last = [op |-> "App", args |-> <<>>, exc |-> "none", warned |-> {},
               ret |-> <<>>]
    /\ calls = 0

LoadPlugins ==
    /\ Ready
    /\ last.op = "App"
    /\ \E discovered \in Discoveries :
          AppOutcome(load_plugins(App, discovered), "load_plugins",
                     <<discovered>>, <<>>)

\* The process goes on after load_plugins has returned: a failed load_plugins
\* ends it.
Loaded ==
    /\ Ready
    /\ last.op # "App"
    /\ ~(last.op = "load_plugins" /\ last.exc # "none")

\* The hook types, catalog types, item names, values and receivers of the
\* calls made on the App once the plugins are loaded.
HookTypes == valid_hooks \cup {"bogus"}
CatalogTypes == {"wait", "registry", "volume"}
ItemNames == {"http", "tcp"}
ItemValues == {"cli", "test"}
Receivers == {[plugin |-> v, instance |-> 0] : v \in ItemValues}

AddHook ==
    /\ Loaded
    /\ \E hook_type \in HookTypes, receiver \in Receivers :
          AppOutcome(add_hook(App, hook_type, receiver), "add_hook",
                     <<hook_type, receiver>>, <<>>)

RunHooks ==
    /\ Loaded
    /\ \E hook_type \in HookTypes, result \in BOOLEAN :
          \E bad \in 0..Len(Get(hooks, hook_type, <<>>)) :
              LET r == run_hooks(App, hook_type, bad, result)
              IN AppOutcome(Raise(App, r.exc), "run_hooks",
                            <<hook_type, bad, result>>,
                            [called |-> r.called, value |-> r.ret])

AddCatalogType ==
    /\ Loaded
    /\ \E name \in CatalogTypes :
          AppOutcome(add_catalog_type(App, name), "add_catalog_type",
                     <<name>>, <<>>)

AddCatalogItem ==
    /\ Loaded
    /\ \E type_name \in CatalogTypes, name \in ItemNames, value \in ItemValues :
          AppOutcome(add_catalog_item(App, type_name, name, value),
                     "add_catalog_item", <<type_name, name, value>>, <<>>)

GetCatalogItems ==
    /\ Loaded
    /\ \E type_name \in CatalogTypes :
          LET r == get_catalog_items(App, type_name)
          IN AppOutcome(Raise(App, r.exc), "get_catalog_items",
                        <<type_name>>, r.ret)

GetPlugin ==
    /\ Loaded
    /\ \E klass \in PluginClasses :
          LET r == get_plugin(App, klass)
          IN AppOutcome(Raise(App, r.exc), "get_plugin", <<klass>>, r.ret)

NextPlugins ==
    \/ LoadPlugins
    \/ AddHook
    \/ RunHooks
    \/ AddCatalogType
    \/ AddCatalogItem
    \/ GetCatalogItems
    \/ GetPlugin

SpecPlugins == InitPlugins /\ [][NextPlugins]_vars


\* Builder.build on an App whose plugins are loaded: the App after
\* load_plugins over one of a few sets of plugins, with none, one or two
\* receivers for pre-build and post-build.
BuildDiscoveries ==
    {<<>>, <<"tail">>, <<"waits", "boot">>, <<"ui", "boot", "waits">>}

InitBuild ==
    /\ containers = {}
    /\ _dependencies = EmptyDict
    /\ _build_dependencies = EmptyDict
    /\ _options = EmptyDict
    /\ ports = EmptyGraph.ports
    /\ environment = EmptyGraph.env
    /\ image_tag = EmptyGraph.tag
    /\ user_profile = NullProfile
    /\ disk = NoFile
    /\ \E discovered \in BuildDiscoveries :
          LET a == load_plugins(FreshApp, discovered)
          IN /\ instances = a.instances
             /\ plugins = a.plugins
             /\ loaded = a.loaded
             /\ hooks = a.hooks
             /\ catalog = a.catalog
             /\ last = [op |-> "load_plugins", args |-> <<discovered>>,
                        exc |-> a.exc, warned |-> {}, ret |-> <<>>]
    /\ calls = 0

\* The streams a build returns: up to two entries, each a step, other output,
\* an error, or output and error in one entry.
StreamEntries ==
    {StreamEntry(TRUE, TRUE, FALSE), StreamEntry(TRUE, FALSE, FALSE),
     StreamEntry(FALSE, FALSE, TRUE), StreamEntry(TRUE, FALSE, TRUE)}
Streams == Lists(StreamEntries, 2)

Build ==
    /\ Ready
    /\ \E context \in BOOLEAN, result \in Streams :
          \E bad_pre \in 0..Len(Get(hooks, "pre-build", <<>>)),
             bad_post \in 0..Len(Get(hooks, "post-build", <<>>)) :
              LET r == build(App, context, result, bad_pre, bad_post)
              IN AppOutcome(Raise(App, r.exc), "build",
                            <<context, result, bad_pre, bad_post>>, r)

NextBuild == Build

SpecBuild == InitBuild /\ [][NextBuild]_vars


\* WaitsPlugin.post_start for one started container, on an App that loaded
\* the waits plugin: the container's waits, what container_running returns in
\* each round and what each wait's ready() returns in each round.
WaitEntries ==
    {WaitEntry("tcp", 80), WaitEntry("http", 80), WaitEntry("bogus", 80)}
WaitLists == Lists(WaitEntries, 2)

InitWaits ==
    /\ containers = {}
    /\ _dependencies = EmptyDict
    /\ _build_dependencies = EmptyDict
    /\ _options = EmptyDict
    /\ ports = EmptyGraph.ports
    /\ environment = EmptyGraph.env
    /\ image_tag = EmptyGraph.tag
    /\ user_profile = NullProfile
    /\ disk = NoFile
    /\ LET a == load_plugins(FreshApp, <<"waits">>)
       IN /\ instances = a.instances
          /\ plugins = a.plugins
          /\ loaded = a.loaded
          /\ hooks = a.hooks
          /\ catalog = a.catalog
          /\ last = [op |-> "load_plugins", args |-> <<<<"waits">>>>,
                     exc |-> a.exc, warned |-> {}, ret |-> <<>>]
    /\ calls = 0

PostStart ==
    /\ Ready
    /\ last.op = "load_plugins"
    /\ \E waits \in WaitLists,
          running \in [1..MaxRounds -> BOOLEAN],
          polls \in [1..MaxRounds -> [1..2 -> BOOLEAN]] :
          LET r == post_start(App, waits, running, polls)
          IN AppOutcome(Raise(App, r.exc), "post_start",
                        <<waits, running, polls>>, r)

NextWaits == PostStart

SpecWaits == InitWaits /\ [][NextWaits]_vars


\* ------------------------------------------------------------ properties
Range(l) == {l[i] : i \in 1..Len(l)}

\* The call the step has just made, and whether it returned or raised.
Called(op) == last.op = op
Returned(op) == last.op = op /\ last.exc = "none"
Raised(op) == last.op = op /\ last.exc \notin {"none", "diverges"}

\* C1: whatever calls were made, failed ones included, dependencies(C) and
\* dependents(C) hold only containers that are registered in graph.containers.
C1_EdgesStayInGraph ==
    \A c \in Objs :
        /\ dependencies(c) \subseteq containers
        /\ dependents(c) \subseteq containers

\* C1 witness: a set_dependencies call failed on its second provider and left
\* the edge to the first one behind.
C1_Witness ==
    /\ Raised("set_dependencies")
    /\ dependencies(last.args[1]) # {}
    /\ dependents("base") # {}

\* C2 (as claimed): set_dependencies fails with the reference error whenever
\* the depender or any provider is not in the graph, whatever the providers.
C2_RejectsEveryNonMember ==
    (Called("set_dependencies")
        /\ (last.args[1] \notin containers
              \/ \E provider \in Range(last.args[2]) : provider \notin containers))
    => last.exc = "ValueError"

\* C3: a set_dependencies call that returns leaves dependencies(depender) equal
\* to the set of providers given, and leaves alone every other container's
\* dependencies, the build dependencies and the option bag.
C3_SetDependenciesReplaces ==
    [][Returned("set_dependencies")' =>
          /\ Get(_dependencies', last'.args[1], {}) = Range(last'.args[2])
          /\ \A c \in Objs \ {last'.args[1]} : dependencies(c)' = dependencies(c)
          /\ DOMAIN _dependencies' = DOMAIN _dependencies \cup {last'.args[1]}
          /\ _build_dependencies' = _build_dependencies
          /\ _options' = _options]_vars

\* C3 witness: app depended on base; after set_dependencies(app, [web]) it
\* depends on web alone.
C3_Witness ==
    /\ Returned("set_dependencies")
    /\ last.args = <<"app", <<"web">>>>
    /\ dependencies("app") = {"web"}
    /\ "base" \in containers

\* C4: a build_ancestry(C) that returns gives the chain of managed build
\* parents, furthest ancestor first and C's own parent last, without C, and
\* gives the empty list exactly when build_parent(C) is None.
C4_BuildAncestryIsParentChain ==
    Returned("build_ancestry") =>
        LET c == last.args[1]
            a == last.ret
        IN /\ c \notin Range(a)
           /\ (a = <<>>) <=> (graph_build_parent(Graph, c) = None)
           /\ a # <<>> =>
                 /\ a[Len(a)] = graph_build_parent(Graph, c)
                 /\ graph_build_parent(Graph, a[1]) = None
                 /\ \A i \in 1..(Len(a) - 1) :
                       a[i] = graph_build_parent(Graph, a[i + 1])

\* C4 witness: build_ancestry(web) returned a chain of two ancestors.
C4_Witness ==
    /\ Returned("build_ancestry")
    /\ last.args = <<"web">>
    /\ last.ret = <<"base", "app">>

\* C5 (as claimed): in every graph the build parents of every container lead
\* to a container without managed parent, so build_ancestry ends.
C5_BuildDepsAcyclic ==
    \A c \in containers : build_ancestry(Graph, c).ended

\* C6 (as claimed): after an add_containers that returns, every container of
\* the batch depends on exactly its default links, all registered, and has the
\* build edge to its managed parent, or no build edge at all.
C6_BatchWiredNoOtherEdge ==
    Returned("add_containers") =>
        \A c \in Range(last.args[1]) :
            /\ dependencies(c) = default_links(c)
            /\ default_links(c) \subseteq containers
            /\ IF build_parent_in_prefix(c)
               THEN graph_build_parent(Graph, c) = build_parent(c).name
               ELSE c \notin DOMAIN _build_dependencies

\* C6 (amended): ... has the build edge to its managed parent; for a container
\* whose parent is not managed add_containers leaves the build edge as it was.
C6_BatchWired ==
    [][Returned("add_containers")' =>
          \A c \in Range(last'.args[1]) :
              /\ dependencies(c)' = default_links(c)
              /\ default_links(c) \subseteq containers'
              /\ IF build_parent_in_prefix(c)
                 THEN /\ c \in DOMAIN _build_dependencies'
                      /\ _build_dependencies'[c] = build_parent(c).name
                 ELSE Get(_build_dependencies', c, None)
                          = Get(_build_dependencies, c, None)]_vars

\* C6 witness: app was added in one batch before base, on which it depends
\* and builds.
C6_Witness ==
    /\ Returned("add_containers")
    /\ last.args = <<<<"app", "base">>>>
    /\ calls = 1
    /\ "web" \notin containers
    /\ dependencies("app") = {"base"}
    /\ graph_build_parent(Graph, "app") = "base"

\* bool(value) for the values set_option is called with.
C7_TrueValues == {PyBool(TRUE), PyStr("yes"), PySet({"src"})}

\* C7: set_option raises the configuration error for a key that is no option
\* and for devmodes with a value that is no set; a set_option that raises
\* leaves every option bag as it was; default_boot stores bool(value).
C7_SetOptionValidates ==
    [][Called("set_option")' =>
          LET container == last'.args[1]
              option == last'.args[2]
              value == last'.args[3]
          IN /\ option \notin {"default_boot", "devmodes", "in_profile"}
                    => last'.exc = "BadConfigError"
             /\ (option = "devmodes" /\ value.kind # "set")
                    => last'.exc = "BadConfigError"
             /\ last'.exc # "none" => _options' = _options
             /\ option = "default_boot" =>
                    /\ last'.exc = "none"
                    /\ Get(Get(_options', container, EmptyDict), "default_boot", PyNone)
                           = PyBool(value \in C7_TrueValues)]_vars

\* C7 witness: a set_option was rejected after another had stored a false
\* default_boot from a value that is not a boolean.
C7_Witness ==
    /\ Called("set_option")
    /\ last.exc = "BadConfigError"
    /\ \E c \in Objs :
          /\ "default_boot" \in DOMAIN options(c)
          /\ options(c)["default_boot"] = PyBool(FALSE)

\* C8: calculate_links gives (default_links - ignore_links) | extra_links when
\* both sets lie within all_links, and raises the configuration error otherwise.
C8_CalculateLinks ==
    Called("calculate_links") =>
        LET extra == last.args[1]
            ignore == last.args[2]
            c == last.args[3]
        IN IF extra \subseteq all_links(c) /\ ignore \subseteq all_links(c)
           THEN /\ last.exc = "none"
                /\ last.ret = (default_links(c) \ ignore) \cup extra
           ELSE last.exc = "BadConfigError"

\* C8 witness: a link is ignored and an optional link is added.
C8_Witness ==
    /\ Returned("calculate_links")
    /\ last.args = <<{"web"}, {"base"}, "app">>
    /\ last.ret = {"web"}

\* The entries of a profile for container c; the ports and the environment an
\* entry sets, as key -> value.
EntriesFor(profile, c) ==
    {profile.containers[i].details :
        i \in {j \in 1..Len(profile.containers) : profile.containers[j].cname = c}}
PortKeys(details) == {int(details.ports[i][1]).n : i \in 1..Len(details.ports)}
PortValue(details, k) ==
    LET i == CHOOSE j \in 1..Len(details.ports) : int(details.ports[j][1]).n = k
    IN int(details.ports[i][2]).n
EnvKeys(details) == {details.environment[i][1] : i \in 1..Len(details.environment)}
EnvValue(details, k) ==
    LET i == CHOOSE j \in 1..Len(details.environment) : details.environment[j][1] = k
    IN details.environment[i][2]

\* C9 (as claimed): after load_profiles with a user profile that names a
\* parent, a port, an environment key or the devmodes option set by both holds
\* the child's value, and one set by the parent alone holds the parent's.
C9_ChildOverridesParent ==
    (Called("load_profiles") /\ last.args[1] # "absent") =>
        LET child == ProfileTable[last.args[1]]
        IN child.name \in LibraryProfiles =>
             LET parent == ProfileTable[child.name]
             IN \A c \in containers :
                  /\ \A d \in EntriesFor(child, c) :
                        /\ \A k \in PortKeys(d) :
                              Get(ports[c], k, -1) = PortValue(d, k)
                        /\ \A k \in EnvKeys(d) :
                              Get(environment[c], k, None) = EnvValue(d, k)
                        /\ Get(options(c), "devmodes", PyNone) = PySet(d.devmodes)
                  /\ \A d \in EntriesFor(parent, c) :
                        /\ \A k \in PortKeys(d) :
                              (\A e \in EntriesFor(child, c) : k \notin PortKeys(e))
                                  => Get(ports[c], k, -1) = PortValue(d, k)
                        /\ \A k \in EnvKeys(d) :
                              (\A e \in EntriesFor(child, c) : k \notin EnvKeys(e))
                                  => Get(environment[c], k, None) = EnvValue(d, k)
                        /\ EntriesFor(child, c) = {}
                              => Get(options(c), "devmodes", PyNone) = PySet(d.devmodes)

\* C10 (as claimed): an apply that raises leaves the dependency edges, the
\* option bag and every container's ports, environment and image tag as they
\* were before the call.
C10_FailedApplyChangesNothing ==
    [][Raised("apply")' =>
          /\ _dependencies' = _dependencies
          /\ _options' = _options
          /\ ports' = ports
          /\ environment' = environment
          /\ image_tag' = image_tag]_vars

\* C10 (amended): an apply that raises stopped at one entry: the entries
\* before it stay applied (their devmodes are set), and the containers of the
\* entries after it, like those the profile does not name, are as before.
C10_FailedApplyStopsAtEntry ==
    [][Raised("apply")' =>
          LET entries == ProfileTable[last'.args[1]].containers
          IN \E i \in 1..Len(entries) :
                /\ entries[i].cname \in containers
                /\ \A j \in 1..(i - 1) :
                      entries[j].cname \in containers =>
                          Get(Get(_options', entries[j].cname, EmptyDict),
                              "devmodes", PyNone)
                              = PySet(entries[j].details.devmodes)
                /\ \A c \in Objs \ {entries[j].cname : j \in 1..i} :
                      /\ dependencies(c)' = dependencies(c)
                      /\ options(c)' = options(c)
                      /\ ports'[c] = ports[c]
                      /\ environment'[c] = environment[c]
                      /\ image_tag'[c] = image_tag[c]]_vars

\* C10 witness: the second entry of a profile had an invalid link; the first
\* entry's container keeps what was applied, the third entry's has nothing.
C10_Witness ==
    /\ Raised("apply")
    /\ last.args = <<"badlink", FALSE>>
    /\ "web" \in containers
    /\ ports["base"] = (80 :> 9090)
    /\ image_tag["base"] = "v3"
    /\ options("web") = EmptyDict

\* The container names the profile has an entry for.
EntryNames(profile) ==
    {profile.containers[i].cname : i \in 1..Len(profile.containers)}

\* C11: an entry naming a container that is not in the graph does not make
\* apply fail: a profile with only such entries returns; an apply that returns
\* has warned about exactly those entries, has left the containers they name
\* as they were, and has applied every entry whose container is present (its
\* devmodes are set).
C11_AbsentEntryIsSkipped ==
    [][Called("apply")' =>
          LET profile == ProfileTable[last'.args[1]]
              absent == EntryNames(profile) \ containers
          IN /\ EntryNames(profile) \cap containers = {} => last'.exc = "none"
             /\ last'.exc = "none" =>
                   /\ last'.warned = absent
                   /\ containers' = containers
                   /\ \A c \in absent \cap Objs :
                         /\ Get(_dependencies', c, {}) = Get(_dependencies, c, {})
                         /\ Get(_build_dependencies', c, {})
                               = Get(_build_dependencies, c, {})
                         /\ Get(_options', c, EmptyDict) = Get(_options, c, EmptyDict)
                         /\ ports'[c] = ports[c]
                         /\ environment'[c] = environment[c]
                         /\ image_tag'[c] = image_tag[c]
                   /\ \A i \in 1..Len(profile.containers) :
                         profile.containers[i].cname \in containers =>
                            Get(Get(_options', profile.containers[i].cname, EmptyDict),
                                "devmodes", PyNone)
                                = PySet(profile.containers[i].details.devmodes)]_vars

\* C11 witness: a profile named two containers that are not in the graph,
\* before and after one that is; apply returned, warned about both and applied
\* the entry between them.
C11_Witness ==
    /\ Returned("apply")
    /\ last.args = <<"layered", FALSE>>
    /\ last.warned = {"ghost", "web"}
    /\ options("base") = ("default_boot" :> PyBool(TRUE)) @@ ("devmodes" :> PySet({"dbg"}))
    /\ ports["base"] = (443 :> 8080)

\* C12: an apply that returns has set the dependencies of a present container
\* to the result of calculate_links when its entry has a non-empty ignore_links
\* or extra_links, and has left the container's dependency set as it was, one
\* installed by an earlier profile included, when the entry has neither.
C12_LinksOnlyWhenOverridden ==
    [][Returned("apply")' =>
          LET entries == ProfileTable[last'.args[1]].containers
          IN \A i \in 1..Len(entries) :
                LET c == entries[i].cname
                    details == entries[i].details
                IN c \in containers =>
                      IF details.ignore_links # {} \/ details.extra_links # {}
                      THEN /\ c \in DOMAIN _dependencies'
                           /\ _dependencies'[c] = calculate_links(details, c).links
                      ELSE /\ (c \in DOMAIN _dependencies') = (c \in DOMAIN _dependencies)
                           /\ Get(_dependencies', c, {}) = Get(_dependencies, c, {})]_vars

\* C12 witness: a first profile replaced app's link to base by one to web; a
\* second profile, with an entry for app that has no link overrides, was
\* applied and app still depends on web alone.
C12_Witness ==
    /\ Returned("apply")
    /\ last.args = <<"dev", FALSE>>
    /\ dependencies("app") = {"web"}
    /\ default_links("app") = {"base"}
    /\ options("app")["devmodes"] = PySet({"src", "dbg"})

\* The links of every entry of the profile whose container is present are
\* valid and in the graph, so that apply gets to the ports of every entry.
LinksApply(profile) ==
    \A i \in 1..Len(profile.containers) :
        LET c == profile.containers[i].cname
            details == profile.containers[i].details
        IN (c \in containers
              /\ (details.ignore_links # {} \/ details.extra_links # {}))
           => /\ calculate_links(details, c).exc = "none"
              /\ calculate_links(details, c).links \subseteq containers

\* A port key or value that int() does not take.
NonNumeric(v) == int(v).exc # "none"

\* C13 (as claimed): apply (outside compatibility mode, with valid links) of a
\* profile in which a present container's entry has a port key or value that
\* is not numeric fails with the configuration error; otherwise it returns and
\* each present container's ports are its former ports overlaid with the
\* entry's, keys and values as integers.
C13_PortsMergedOrConfigError ==
    [][(Called("apply")' /\ ~last'.args[2] /\ LinksApply(ProfileTable[last'.args[1]])) =>
          LET entries == ProfileTable[last'.args[1]].containers
              present == {i \in 1..Len(entries) : entries[i].cname \in containers}
          IN IF \E i \in present : \E j \in 1..Len(entries[i].details.ports) :
                    \/ NonNumeric(entries[i].details.ports[j][1])
                    \/ NonNumeric(entries[i].details.ports[j][2])
             THEN last'.exc = "BadConfigError"
             ELSE /\ last'.exc = "none"
                  /\ \A i \in present :
                        LET c == entries[i].cname
                            d == entries[i].details
                        IN /\ DOMAIN ports'[c] = DOMAIN ports[c] \cup PortKeys(d)
                           /\ \A k \in DOMAIN ports'[c] :
                                 ports'[c][k] = IF k \in PortKeys(d)
                                                THEN PortValue(d, k)
                                                ELSE ports[c][k]]_vars

\* Entry i of the list has a port key or value that int() does not take.
BadPorts(entries, i) ==
    \E j \in 1..Len(entries[i].details.ports) :
        \/ NonNumeric(entries[i].details.ports[j][1])
        \/ NonNumeric(entries[i].details.ports[j][2])

C15_DefaultBootSet ==
    [][(Called("apply")' /\ LinksApply(ProfileTable[last'.args[1]])) =>
          LET entries == ProfileTable[last'.args[1]].containers
              compat == last'.args[2]
          IN \A i \in 1..Len(entries) :
                LET c == entries[i].cname
                    requested == Truthy(entries[i].details.default_boot)
                IN (/\ c \in containers
                    /\ \A j \in 1..(i - 1) :
                          entries[j].cname \in containers => ~BadPorts(entries, j))
                   => /\ (requested \/ (compat /\ ~foreground(c)))
                         => Get(Get(_options', c, EmptyDict), "default_boot", PyNone)
                               = PyBool(TRUE)
                      /\ (compat /\ foreground(c) /\ ~requested)
                         => Get(Get(_options', c, EmptyDict), "default_boot", PyNone)
                               = Get(Get(_options, c, EmptyDict), "default_boot", PyNone)]_vars

\* C16 (as claimed): an apply in compatibility mode of a profile with valid
\* links and ports returns and leaves in_profile true for every present
\* container the profile lists; an apply outside compatibility mode leaves
\* every container's in_profile as it was.
C16_InProfileAccepted ==
    [][Called("apply")' =>
          LET entries == ProfileTable[last'.args[1]].containers
          IN IF last'.args[2]
             THEN (/\ LinksApply(ProfileTable[last'.args[1]])
                   /\ \A i \in 1..Len(entries) :
                         entries[i].cname \in containers => ~BadPorts(entries, i))
                  => /\ last'.exc = "none"
                     /\ \A i \in 1..Len(entries) :
                           entries[i].cname \in containers =>
                              Get(Get(_options', entries[i].cname, EmptyDict),
                                  "in_profile", PyNone) = PyBool(TRUE)
             ELSE \A c \in Objs :
                     Get(Get(_options', c, EmptyDict), "in_profile", PyNone)
                        = Get(Get(_options, c, EmptyDict), "in_profile", PyNone)]_vars

\* The fields of an entry's details that are not empty.
NonEmptyFields(details) ==
    {k \in {"extra_links", "ignore_links", "devmodes"} : details[k] # {}}
      \cup {k \in {"ports", "environment"} : details[k] # <<>>}

\* The list has the members of S, each once, in ascending order.
IsSortedListOf(l, S) ==
    /\ set(l) = S
    /\ Len(l) = Cardinality(S)
    /\ \A i, j \in 1..Len(l) :
          i < j => \E a, b \in 1..Len(StrOrder) :
                       a < b /\ StrOrder[a] = l[i] /\ StrOrder[b] = l[j]

\* The output of dump() has an entry for exactly the containers whose entry is
\* not ephemeral and has a non-empty field, each with exactly its non-empty
\* fields (sets as sorted lists); it has the containers key only when an entry
\* is written and the min-version key only when a version is set.
DumpKeepsNonEmpty ==
    LET data == last.ret
        written == Get(data, "containers", <<>>)
        entries == user_profile.containers
        kept == {i \in 1..Len(entries) :
                    /\ ~entries[i].details.ephemeral
                    /\ NonEmptyFields(entries[i].details) # {}}
    IN /\ {written[j].cname : j \in 1..Len(written)}
             = {entries[i].cname : i \in kept}
       /\ \A j \in 1..Len(written) : \A i \in kept :
             written[j].cname = entries[i].cname =>
                /\ DOMAIN written[j].details = NonEmptyFields(entries[i].details)
                /\ \A k \in DOMAIN written[j].details :
                      IF k \in {"ports", "environment"}
                      THEN written[j].details[k] = entries[i].details[k]
                      ELSE IsSortedListOf(written[j].details[k],
                                          entries[i].details[k])
       /\ "containers" \in DOMAIN data <=> kept # {}
       /\ "min-version" \in DOMAIN data <=> user_profile.version \notin {None, ""}
       /\ "min-version" \in DOMAIN data => data["min-version"] = user_profile.version
       /\ DOMAIN data \subseteq {"name", "containers", "min-version"}

\* C17 (as claimed): dump() omits the ephemeral and the all-empty entries,
\* keeps the others with their non-empty fields only, and has no top-level key
\* with an empty value: no containers when no entry is written, no min-version
\* when no version is set, no name when there is no parent profile.
C17_DumpOmitsEmpty ==
    Called("dump") =>
        /\ DumpKeepsNonEmpty
        /\ "name" \in DOMAIN last.ret <=> user_profile.parent_profile \notin {None, ""}
        /\ "name" \in DOMAIN last.ret => last.ret["name"] = user_profile.parent_profile

\* C17 (amended): dump() omits the ephemeral and the all-empty entries, keeps
\* the others with their non-empty fields only, has no containers key when no
\* entry is written and no min-version key when no version is set; the name
\* key is always there and holds the parent profile, None when there is none.
C17_DumpOmitsEmptyKeepsName ==
    Called("dump") =>
        /\ DumpKeepsNonEmpty
        /\ "name" \in DOMAIN last.ret
        /\ last.ret["name"] = user_profile.parent_profile

\* C17 witness: a profile without parent and version, with an ephemeral entry
\* and two others, was dumped: two entries, a name that is None, no version.
C17_Witness ==
    /\ Called("dump")
    /\ Len(user_profile.containers) = 3
    /\ user_profile.containers[1].details.ephemeral
    /\ DOMAIN last.ret = {"name", "containers"}
    /\ last.ret["name"] = None
    /\ Len(last.ret["containers"]) = 2
    /\ last.ret["containers"][1].details = ("devmodes" :> <<"src">>)

\* The profile after has an entry for exactly the containers of the entries
\* `kept` of the profile before, with the same links, devmodes, ports and
\* environment, none of them ephemeral.
Reproduces(before, after, kept) ==
    /\ {after.containers[j].cname : j \in 1..Len(after.containers)}
          = {before.containers[i].cname : i \in kept}
    /\ Len(after.containers) = Cardinality(kept)
    /\ \A j \in 1..Len(after.containers) : \A i \in kept :
          after.containers[j].cname = before.containers[i].cname =>
             LET a == after.containers[j].details
                 b == before.containers[i].details
             IN /\ a.extra_links = b.extra_links
                /\ a.ignore_links = b.ignore_links
                /\ a.devmodes = b.devmodes
                /\ a.ports = b.ports
                /\ a.environment = b.environment
                /\ ~a.ephemeral

\* The profile has been saved and is now loaded again from its file.
Reloading == last.op = "save" /\ last.exc = "none" /\ Called("load")'

\* C18 (as claimed): a profile loaded from the output of its own dump has the
\* entries of every non-ephemeral entry of the profile, with the same fields,
\* and the same parent_profile and version.
C18_RoundTripAllEntries ==
    [][Reloading =>
          /\ Reproduces(user_profile, user_profile',
                {i \in 1..Len(user_profile.containers) :
                    ~user_profile.containers[i].details.ephemeral})
          /\ user_profile'.parent_profile = user_profile.parent_profile
          /\ user_profile'.version = user_profile.version]_vars

\* C18 (amended): a profile loaded from the output of its own dump has the
\* entries of every non-ephemeral entry with a non-empty field, with the same
\* fields, the same parent_profile, and the same version when one is set (None
\* when the version is empty).
C18_RoundTripNonEmptyEntries ==
    [][Reloading =>
          /\ Reproduces(user_profile, user_profile',
                {i \in 1..Len(user_profile.containers) :
                    /\ ~user_profile.containers[i].details.ephemeral
                    /\ NonEmptyFields(user_profile.containers[i].details) # {}})
          /\ user_profile'.parent_profile = user_profile.parent_profile
          /\ user_profile'.version
                = IF user_profile.version = "" THEN None ELSE user_profile.version]_vars

\* C18 witness: a profile with an entry without details and a full entry was
\* saved and loaded again: the full entry is there, with its sets, ports and
\* environment, and its parent and version.
C18_Witness ==
    /\ Called("load")
    /\ disk.exists
    /\ user_profile.parent_profile = "dev"
    /\ user_profile.version = "1.2"
    /\ Len(user_profile.containers) = 1
    /\ user_profile.containers[1].cname = "app"
    /\ user_profile.containers[1].details.extra_links = {"web"}
    /\ user_profile.containers[1].details.devmodes = {"src", "dbg"}
    /\ user_profile.containers[1].details.ports = <<Port(PyInt(80), PyInt(9090))>>

\* C19: the NullProfile has no parent profile and no entries, so that no
\* parent is applied for it; its apply returns and leaves the graph and every
\* container as they were; its save raises the configuration error and leaves
\* the file as it was, which is no file when none has been written.
C19_NullProfileChangesNothing ==
    [][user_profile.null =>
          /\ user_profile.parent_profile = None
          /\ user_profile.containers = <<>>
          /\ ~Called("parent_profile.apply")'
          /\ Called("user_profile.apply")' =>
                /\ last'.exc = "none"
                /\ last'.warned = {}
                /\ UNCHANGED <<graph_vars, store_vars>>
          /\ Called("save")' =>
                /\ last'.exc = "BadConfigError"
                /\ UNCHANGED <<graph_vars, store_vars>>]_vars

\* C19 witness: there is no profile file and the graph has containers; after
\* an earlier call on the NullProfile its save has failed; there is still no
\* file, no option is set and app depends on base as before.
C19_Witness ==
    /\ user_profile.null
    /\ Raised("save")
    /\ calls = 2
    /\ ~disk.exists
    /\ "app" \in containers
    /\ _options = EmptyDict
    /\ dependencies("app") = {"base"}

\* Two of the plugins provide a common token; a plugin requires a token that
\* none of the plugins provides.
Conflicting(discovered) ==
    \E x, y \in set(discovered) :
        /\ x # y
        /\ set(PluginTable[x].provides) \cap set(PluginTable[y].provides) # {}
Unsatisfied(discovered) ==
    \E x \in set(discovered) : \E r \in set(PluginTable[x].requires) :
        \A y \in set(discovered) : r \notin set(PluginTable[y].provides)

\* C20: a load_plugins over plugins of which two provide the same token, or
\* one requires a token nobody provides, fails, and in that call no plugin is
\* instantiated or stored, no load() is called, and the hooks and the catalog
\* are empty.
C20_ValidationBeforeLoading ==
    [][(Called("load_plugins")'
          /\ (Conflicting(last'.args[1]) \/ Unsatisfied(last'.args[1]))) =>
          /\ last'.exc = "SystemExit"
          /\ instances' = instances
          /\ plugins' = plugins
          /\ loaded' = loaded
          /\ hooks' = EmptyDict
          /\ catalog' = EmptyDict]_vars

\* C20 witness: the first load_plugins found waits and boot, which could load,
\* and waits2, which provides what waits provides; it failed with no instance,
\* no hook and no catalog type.
C20_Witness ==
    /\ Raised("load_plugins")
    /\ calls = 1
    /\ last.args = <<<<"waits", "boot", "waits2">>>>
    /\ instances = <<>>
    /\ plugins = EmptyDict
    /\ loaded = <<>>
    /\ hooks = EmptyDict
    /\ catalog = EmptyDict

\* Plugin x requires a token that plugin y provides.
Needs(x, y) ==
    set(PluginTable[x].requires) \cap set(PluginTable[y].provides) # {}

\* The requirements among the plugins go round in a circle (of up to three).
Cyclic(discovered) ==
    \E x, y, z \in set(discovered) :
        \/ Needs(x, x)
        \/ Needs(x, y) /\ Needs(y, x)
        \/ Needs(x, y) /\ Needs(y, z) /\ Needs(z, x)

\* The plugins can all be loaded: no conflict, nothing missing, no cycle, and
\* every entry point imports.
Valid(discovered) ==
    /\ ~Conflicting(discovered)
    /\ ~Unsatisfied(discovered)
    /\ ~Cyclic(discovered)
    /\ \A x \in set(discovered) : PluginTable[x].imports

\* The place of plugin x's load() among the load() calls made.
LoadPosition(x) == CHOOSE i \in 1..Len(loaded) : instances[loaded[i]] = x

\* C21: load_plugins over a valid set of plugins returns, and has called
\* load() on every plugin after the load() of every plugin that provides a
\* token it requires.
C21_ProvidersLoadFirst ==
    Called("load_plugins") =>
        LET discovered == last.args[1]
        IN Valid(discovered) =>
              /\ last.exc = "none"
              /\ \A x \in set(discovered) :
                    \E i \in 1..Len(loaded) : instances[loaded[i]] = x
              /\ \A x, y \in set(discovered) :
                    Needs(x, y) => LoadPosition(y) < LoadPosition(x)

\* C21 witness: ui, which needs boot and waits, and boot, which needs waits,
\* were discovered before waits; the loads were waits, boot, ui.
C21_Witness ==
    /\ Returned("load_plugins")
    /\ last.args = <<<<"ui", "boot", "waits">>>>
    /\ instances = <<"waits", "boot", "ui">>
    /\ loaded = <<1, 2, 3>>

\* No plugin has been instantiated, stored or loaded; no hook, no catalog type.
NothingLoaded ==
    /\ instances = <<>>
    /\ plugins = EmptyDict
    /\ loaded = <<>>
    /\ hooks = EmptyDict
    /\ catalog = EmptyDict

\* C22 (as claimed): load_plugins over plugins whose requirements go round in
\* a circle fails with the cycle error, not with the exit of a missing
\* capability, and nothing is instantiated or loaded.
C22_CycleIsCycleError ==
    (Called("load_plugins") /\ Cyclic(last.args[1])) =>
        /\ last.exc = "CycleError"
        /\ NothingLoaded

\* C22 (amended): load_plugins over plugins whose requirements go round in a
\* circle fails and nothing is instantiated or loaded; it fails with the cycle
\* error when the entry points import and the two validation passes find no
\* conflict and nothing missing, and with the exit of those passes otherwise.
C22_CycleAfterValidation ==
    (Called("load_plugins") /\ Cyclic(last.args[1])) =>
        LET discovered == last.args[1]
        IN /\ NothingLoaded
           /\ last.exc =
                IF \/ Conflicting(discovered)
                   \/ Unsatisfied(discovered)
                   \/ \E x \in set(discovered) : ~PluginTable[x].imports
                THEN "SystemExit" ELSE "CycleError"

\* C22 witness: ping and pong, which require each other, were discovered with
\* tail, which could load; the cycle error was raised and nothing was loaded.
C22_Witness ==
    /\ Called("load_plugins")
    /\ last.args = <<<<"tail", "ping", "pong">>>>
    /\ last.exc = "CycleError"
    /\ NothingLoaded

\* x comes before y in the order of identity.
Before(x, y) ==
    \E i, j \in 1..Len(PluginOrder) :
        i < j /\ PluginOrder[i] = x /\ PluginOrder[j] = y

\* C23: load_plugins ends the same way (the same instances in the same order,
\* the same hooks and catalog, the same error) for every discovery order of
\* the plugins it was given; and plugins that can load from the start (they
\* require nothing) load in the order of their identity.
C23_LoadOrderDeterministic ==
    Called("load_plugins") =>
        LET discovered == last.args[1]
        IN /\ \A other \in Discoveries :
                 set(other) = set(discovered) =>
                    load_plugins(FreshApp, other) = [App EXCEPT !.exc = last.exc]
           /\ last.exc = "none" =>
                 \A x, y \in set(discovered) :
                     (/\ PluginTable[x].requires = <<>>
                      /\ PluginTable[y].requires = <<>>
                      /\ Before(x, y)) => LoadPosition(x) < LoadPosition(y)

\* C23 witness: waits was discovered before tail and boot before both; tail
\* and waits, both loadable from the start, loaded in the order of identity.
C23_Witness ==
    /\ Returned("load_plugins")
    /\ last.args = <<<<"boot", "waits", "tail">>>>
    /\ instances = <<"tail", "waits", "boot">>
    /\ loaded = <<1, 2, 3>>

\* The instances of class x, and how often load() ran on instance n.
InstancesOf(x) == {n \in 1..Len(instances) : instances[n] = x}
Loads(n) == Cardinality({j \in 1..Len(loaded) : loaded[j] = n})

\* C24: once load_plugins has returned, every discovered class has exactly
\* one instance, load() has run exactly once on it, and it is the instance
\* stored for the class, which get_plugin(class) returns; there is no instance
\* of another class.
C24_OneInstanceEach ==
    /\ Returned("load_plugins") =>
          /\ \A x \in set(last.args[1]) :
                /\ Cardinality(InstancesOf(x)) = 1
                /\ \A n \in InstancesOf(x) :
                      /\ Loads(n) = 1
                      /\ plugins[x] = n
                      /\ get_plugin(App, x) = [exc |-> "none", ret |-> n]
          /\ Range(instances) = set(last.args[1])
          /\ DOMAIN plugins = set(last.args[1])
    /\ Returned("get_plugin") =>
          /\ InstancesOf(last.args[1]) = {last.ret}
          /\ Loads(last.ret) = 1

\* C24 witness: get_plugin(boot) after boot, tail and waits were loaded:
\* it returns the third instance, the only one of boot.
C24_Witness ==
    /\ Returned("get_plugin")
    /\ last.args = <<"boot">>
    /\ instances = <<"tail", "waits", "boot">>
    /\ loaded = <<1, 2, 3>>
    /\ last.ret = 3

\* C25: add_hook with a hook type outside the valid ones fails and leaves the
\* hooks as they were; with a valid type it puts the receiver at the end of
\* that type's list and leaves the list of every other type as it was.
C25_AddHookAppendsOrFails ==
    [][last'.op = "add_hook" =>
          LET hook_type == last'.args[1]
              receiver == last'.args[2]
          IN IF hook_type \notin valid_hooks
             THEN last'.exc = "ValueError" /\ hooks' = hooks
             ELSE /\ last'.exc = "none"
                  /\ hooks'[hook_type]
                        = Append(Get(hooks, hook_type, <<>>), receiver)
                  /\ DOMAIN hooks' = DOMAIN hooks \cup {hook_type}
                  /\ \A other \in DOMAIN hooks \ {hook_type} :
                        hooks'[other] = hooks[other]]_vars

\* C25 witness: a receiver was added for post-start after tail had registered
\* for post-start and docker-failure; it is the last of the post-start list.
C25_Witness ==
    /\ Returned("add_hook")
    /\ last.args = <<"post-start", [plugin |-> "cli", instance |-> 0]>>
    /\ hooks = ("post-start" :> <<[plugin |-> "tail", instance |-> 1],
                                  [plugin |-> "cli", instance |-> 0]>>)
               @@ ("docker-failure" :> <<[plugin |-> "tail", instance |-> 1]>>)

\* C26: a run_hooks that returns has called the receivers registered for the
\* hook type, each registration once and in the order of registration, and no
\* other receiver; whatever the receivers returned, it returns true exactly
\* when the type has a receiver.
C26_RunHooksCallsAllInOrder ==
    Returned("run_hooks") =>
        LET registered == Get(hooks, last.args[1], <<>>)
        IN /\ last.ret.called = registered
           /\ last.ret.value = (registered # <<>>)

\* C26 witness: post-start was run after tail, waits and boot had registered
\* for it, in that order; the receivers returned a false value; the three were
\* called in that order and the call returned true.
C26_Witness ==
    /\ Returned("run_hooks")
    /\ last.args = <<"post-start", 0, FALSE>>
    /\ last.ret.called = <<[plugin |-> "tail", instance |-> 1],
                           [plugin |-> "waits", instance |-> 2],
                           [plugin |-> "boot", instance |-> 3]>>
    /\ "pre-build" \in DOMAIN hooks
    /\ last.ret.value

\* C27: when a receiver raises during run_hooks, run_hooks raises that error;
\* the receivers called are those registered before the one that raised, in
\* order, and that one: none after it; and the step leaves every list of
\* receivers as it was.
C27_ReceiverErrorPropagates ==
    [][(last'.op = "run_hooks" /\ last'.args[2] > 0) =>
          LET registered == Get(hooks, last'.args[1], <<>>)
              bad == last'.args[2]
          IN /\ last'.exc = "ReceiverError"
             /\ last'.ret.called = SubSeq(registered, 1, bad)
             /\ hooks' = hooks]_vars

\* C27 witness: of the receivers of post-start (tail, waits, boot) the second
\* raised: tail's and waits's were called, boot's was not.
C27_Witness ==
    /\ Raised("run_hooks")
    /\ last.args[1] = "post-start"
    /\ last.args[2] = 2
    /\ Len(hooks["post-start"]) = 3
    /\ last.ret.called = <<[plugin |-> "tail", instance |-> 1],
                           [plugin |-> "waits", instance |-> 2]>>

\* The names of the items of a catalog type.
ItemNamesOf(cat, type_name) ==
    {cat[type_name][i][1] : i \in 1..Len(cat[type_name])}

\* C28: the catalog calls that must fail do fail, and leave the catalog as it
\* was: add_catalog_type of a type that exists (its items stay),
\* add_catalog_item for a type that does not exist or for a name the type
\* already has (the first value stays), get_catalog_items of a type that does
\* not exist.
C28_CatalogFailuresChangeNothing ==
    [][/\ (/\ last'.op = "add_catalog_type"
           /\ last'.args[1] \in DOMAIN catalog)
          => (last'.exc = "ValueError" /\ catalog' = catalog)
       /\ (/\ last'.op = "add_catalog_item"
           /\ \/ last'.args[1] \notin DOMAIN catalog
              \/ last'.args[2] \in ItemNamesOf(catalog, last'.args[1]))
          => (last'.exc = "ValueError" /\ catalog' = catalog)
       /\ (/\ last'.op = "get_catalog_items"
           /\ last'.args[1] \notin DOMAIN catalog)
          => (last'.exc = "ValueError" /\ catalog' = catalog)
       /\ (/\ last'.op \in {"add_catalog_type", "add_catalog_item",
                            "get_catalog_items"}
           /\ last'.exc # "none")
          => catalog' = catalog]_vars

\* C28 witness: the item http of the type wait, added by waits, was added
\* again with another value: the call failed and the item has its first value.
C28_Witness ==
    /\ Raised("add_catalog_item")
    /\ last.args = <<"wait", "http", "cli">>
    /\ "wait" \in DOMAIN catalog
    /\ catalog["wait"][1] = <<"http", "waits">>
    /\ Len(catalog["wait"]) = 5

\* The statements the load() calls of the plugins of a list make, in order,
\* each with its plugin.
RECURSIVE LoadSteps(_, _)
LoadSteps(order, i) ==
    IF i > Len(order) THEN <<>>
    ELSE [k \in 1..Len(PluginTable[order[i]].load) |->
             [plugin |-> order[i], step |-> PluginTable[order[i]].load[k]]]
         \o LoadSteps(order, i + 1)

\* The items those statements add to a catalog type, in order, and the types
\* they register.
ItemsLoaded(order, type_name) ==
    LET adds == SelectSeq(LoadSteps(order, 1),
                          LAMBDA e : /\ e.step.call = "add_catalog_item"
                                     /\ e.step.args[1] = type_name)
    IN [k \in 1..Len(adds) |-> <<adds[k].step.args[2], adds[k].plugin>>]
TypesLoaded(order) ==
    {e.step.args[1] : e \in {e \in Range(LoadSteps(order, 1)) :
                                e.step.call = "add_catalog_type"}}

\* C29: get_catalog_items(type) returns the items added to the type, in the
\* order added, each with its value. Step by step: a load_plugins that returns
\* leaves, for each type the plugins registered, the items their load() calls
\* added, in load order; an add_catalog_item that returns puts its item last
\* in its type and leaves every other type as it was; an add_catalog_type that
\* returns adds an empty type; get_catalog_items returns the items of the type
\* as they stand; no other call, and no failed call, changes the catalog.
C29_CatalogKeepsItemsInOrder ==
    [][/\ (last'.op = "load_plugins" /\ last'.exc = "none") =>
             /\ DOMAIN catalog' = TypesLoaded(instances')
             /\ \A t \in DOMAIN catalog' : catalog'[t] = ItemsLoaded(instances', t)
       /\ (last'.op = "add_catalog_item" /\ last'.exc = "none") =>
             /\ DOMAIN catalog' = DOMAIN catalog
             /\ catalog'[last'.args[1]]
                   = Append(catalog[last'.args[1]], <<last'.args[2], last'.args[3]>>)
             /\ \A t \in DOMAIN catalog \ {last'.args[1]} : catalog'[t] = catalog[t]
       /\ (last'.op = "add_catalog_type" /\ last'.exc = "none") =>
             /\ last'.args[1] \notin DOMAIN catalog
             /\ catalog' = Put(catalog, last'.args[1], <<>>)
       /\ (last'.op = "get_catalog_items" /\ last'.exc = "none") =>
             /\ last'.ret = catalog[last'.args[1]]
             /\ catalog' = catalog
       /\ (\/ last'.op \in {"add_hook", "run_hooks", "get_plugin"}
           \/ /\ last'.op \in {"add_catalog_item", "add_catalog_type",
                               "get_catalog_items"}
              /\ last'.exc # "none") =>
             catalog' = catalog]_vars

\* C29 witness: get_catalog_items(wait) after waits and boot were loaded, with
\* tail, which fills the type registry: the five items of waits and then the
\* item of boot, each with the plugin that added it as its value.
C29_Witness ==
    /\ Returned("get_catalog_items")
    /\ last.args = <<"wait">>
    /\ last.ret = <<<<"http", "waits">>, <<"https", "waits">>, <<"tcp", "waits">>,
                    <<"time", "waits">>, <<"file", "waits">>, <<"boot", "boot">>>>
    /\ "registry" \in DOMAIN catalog
    /\ catalog["registry"] = <<<<"http", "tail">>>>

\* In a list of receivers, those of a plugin come after those of the plugins
\* providing what it requires.
ProvidersFirst(receivers) ==
    \A i, j \in 1..Len(receivers) :
        (/\ receivers[i].plugin \in PluginClasses
         /\ receivers[j].plugin \in PluginClasses
         /\ Needs(receivers[i].plugin, receivers[j].plugin)) => j < i

\* C30: in the list of every hook type the receivers of a plugin that provides
\* a capability come before the receivers of the plugins that require it, and
\* every run_hooks calls them in that order.
C30_HooksInLoadOrder ==
    /\ \A hook_type \in DOMAIN hooks : ProvidersFirst(hooks[hook_type])
    /\ Called("run_hooks") => ProvidersFirst(last.ret.called)

\* C30 witness: ui, boot and waits were discovered in that order; post-start
\* was run: the receiver of waits was called first, then boot's, which
\* requires waits, then the two of ui, which requires both.
C30_Witness ==
    /\ Returned("run_hooks")
    /\ instances = <<"waits", "boot", "ui">>
    /\ last.args[1] = "post-start"
    /\ last.ret.called = <<[plugin |-> "waits", instance |-> 1],
                           [plugin |-> "boot", instance |-> 2],
                           [plugin |-> "ui", instance |-> 3],
                           [plugin |-> "ui", instance |-> 3]>>

\* C35: a set_dependencies call that raises leaves the graph as it was:
\* dependencies(depender) is the set it was before the call, no provider of
\* the call has been added, and no entry has been made for a depender that is
\* not in the graph.
C35_FailedSetDependenciesChangesNothing ==
    [][Raised("set_dependencies")' =>
          /\ Get(_dependencies', last'.args[1], {})
                = Get(_dependencies, last'.args[1], {})
          /\ DOMAIN _dependencies' = DOMAIN _dependencies
          /\ _dependencies' = _dependencies]_vars

\* The graph the step leaves is the graph g: the same edges, option bag,
\* ports, environment and image tags, and the same outcome.
LeavesGraph(g) ==
    /\ g.containers = containers'
    /\ g.deps = _dependencies'
    /\ g.bdeps = _build_dependencies'
    /\ g.opts = _options'
    /\ g.ports = ports'
    /\ g.env = environment'
    /\ g.tag = image_tag'
    /\ g.exc = last'.exc

\* C34: applying a profile again right after it was applied changes nothing:
\* the graph an apply leaves (edges, option bag, ports, environment) is the
\* graph a second apply of the same profile would leave; and an apply leaves
\* the profile object, its containers entries included, as it was.
C34_ApplyIdempotent ==
    [][/\ last'.op = "user_profile.apply" =>
             /\ user_profile' = user_profile
             /\ LeavesGraph(IF user_profile.null THEN null_apply(Graph')
                            ELSE apply(Graph', user_profile, FALSE))
       /\ (/\ last'.op = "parent_profile.apply"
           /\ last'.args[1] \in LibraryProfiles) =>
             /\ user_profile' = user_profile
             /\ LeavesGraph(apply(Graph', ProfileTable[last'.args[1]], TRUE))]_vars

\* C34 witness: a user profile with an entry for app (links, devmodes, a port
\* and an environment variable) was applied to a graph holding app and web.
C34_Witness ==
    /\ Returned("user_profile.apply")
    /\ ~user_profile.null
    /\ {"app", "web"} \subseteq containers
    /\ \E i \in 1..Len(user_profile.containers) :
          /\ user_profile.containers[i].cname = "app"
          /\ user_profile.containers[i].details.extra_links = {"web"}
    /\ dependencies("app") = {"web"}
    /\ options("app") = ("devmodes" :> PySet({"src", "dbg"}))
    /\ ports["app"][80] = 9090
    /\ Get(environment["app"], "MODE", None) = "dev"

\* C31: load_profiles applies the parent the user profile names, in
\* compatibility mode, and then the user profile, and no other profile: what
\* it leaves is what these two applies leave. The parent named by the parent
\* itself plays no part: it is not loaded (that it has no file fails nothing)
\* and not applied.
C31_OneLevelOfParents ==
    [][(last'.op = "load_profiles" /\ last'.args[1] # "absent") =>
          LET user == ProfileTable[last'.args[1]]
              g1 == IF user.name = None THEN Graph
                    ELSE IF user.name \notin LibraryProfiles
                    THEN Raise(Graph, "IOError")
                    ELSE apply(Graph, ProfileTable[user.name], TRUE)
              g2 == IF g1.exc # "none" THEN g1 ELSE apply(g1, user, FALSE)
          IN /\ LeavesGraph(g2)
             /\ last'.warned = g2.warned]_vars

\* C31 witness: the user profile deep names mid as its parent and mid names
\* root; mid (an entry for ghost) and deep (an entry for app) were applied;
\* root's entry for app (a link to web, port 443) was not.
C31_Witness ==
    /\ Returned("load_profiles")
    /\ last.args = <<"deep">>
    /\ {"app", "web"} \subseteq containers
    /\ last.warned = {"ghost"}
    /\ Get(options("app"), "devmodes", PyNone) = PySet({"src"})
    /\ Get(ports["app"], 80, 0) = 9090
    /\ Get(ports["app"], 443, 0) = 0
    /\ "web" \notin dependencies("app")

\* The stream has an error entry.
HasError(result) == \E i \in 1..Len(result) : result[i].error

\* C32: in Builder.build nothing of the build starts before every pre-build
\* hook has run; the post-build hooks are run exactly when the build started
\* and its stream ended without an error entry; and a stream with an error
\* entry makes build raise BuildFailureError with the task finished as
\* FAILED and no post-build hook run.
C32_BuildHooks ==
    Called("build") =>
        LET context == last.args[1]
            result == last.args[2]
            b == last.ret
        IN /\ b.started => b.pre = Get(hooks, "pre-build", <<>>)
           /\ b.started <=> (last.args[3] = 0 /\ context)
           /\ b.post_run <=> (b.started /\ b.read = Len(result) /\ ~HasError(result))
           /\ (b.post_run /\ last.args[4] = 0) => b.post = Get(hooks, "post-build", <<>>)
           /\ (b.started /\ HasError(result)) =>
                 /\ last.exc = "BuildFailureError"
                 /\ b.status = "FAILED"
                 /\ b.read = Len(result)
                 /\ ~b.post_run
                 /\ b.post = <<>>

\* C32 witness: a build with two pre-build and two post-build receivers whose
\* stream had a step and then an error: both pre-build receivers ran, the
\* build failed, no post-build receiver ran.
C32_Witness ==
    /\ Raised("build")
    /\ last.exc = "BuildFailureError"
    /\ last.args[2] = <<StreamEntry(TRUE, TRUE, FALSE), StreamEntry(FALSE, FALSE, TRUE)>>
    /\ Len(last.ret.pre) = 2
    /\ Len(hooks["post-build"]) = 2
    /\ last.ret.post = <<>>
    /\ last.ret.status = "FAILED"

\* The polls of the wait made for entry id, in order, and how often its task
\* was finished.
PollsOf(p, id) == SelectSeq(p.polled, LAMBDA e : e.id = id)
Finishes(p, id) == Cardinality({k \in 1..Len(p.finished) : p.finished[k] = id})

\* C33: post_start returns only when every wait of the container has reported
\* ready; a wait that has reported ready is finished once and is not polled
\* again; a round that starts with a wait pending and the container not
\* running ends post_start with DockerRuntimeError; and an entry whose type
\* the wait catalog does not have gives DockerRuntimeError before any poll.
C33_PostStartWaitsForAll ==
    Called("post_start") =>
        LET waits == last.args[1]
            running == last.args[2]
            p == last.ret
        IN /\ Returned("post_start") =>
                 \A id \in 1..Len(waits) :
                     \E k \in 1..Len(p.polled) :
                         p.polled[k].id = id /\ p.polled[k].ready
           /\ \A id \in 1..Len(waits) :
                 /\ Finishes(p, id) <= 1
                 /\ \A k \in 1..(Len(PollsOf(p, id)) - 1) : ~PollsOf(p, id)[k].ready
           /\ \A round \in 1..p.rounds :
                 ~running[round] =>
                    /\ last.exc = "DockerRuntimeError"
                    /\ round = p.rounds
                    /\ \A k \in 1..Len(p.polled) : p.polled[k].round < round
           /\ (\E i \in 1..Len(waits) : waits[i].type = "bogus") =>
                 /\ last.exc = "DockerRuntimeError"
                 /\ p.polled = <<>>

====
